---- MODULE Spec2Model ----
(***************************************************************************)
(* A model of the LLM response reconciliation pipeline of Test_Agent:      *)
(* the layered JSON decoders of app.py and api_test_generator.py, the      *)
(* per-scenario parallel expansion of app.py and the validation loops of   *)
(* api_test_generator.py and website_analyzer.py.                          *)
(*                                                                         *)
(* Text is a sequence of characters.  A run of letters is written as one   *)
(* element ("scenarios", "w"), every other character is an element of its  *)
(* own.  A JSON value is a tagged record [t, v].                           *)
(***************************************************************************)
EXTENDS Integers, Sequences, FiniteSets, TLC

VARIABLES
    \* ---- one decode of one model reply
    dpre,        \* prose before the JSON candidate of the reply
    dmid,        \* index in Mids of the JSON candidate of the reply
    dpost,       \* prose after the JSON candidate
    dfn,         \* which function's parse step ran ("none" before)
    dout,        \* what that parse step returned: [layer, value]
    \* ---- one run of a validation loop, and a second pass over its result
    vin,         \* json.loads(content): [ok, v]; ok = FALSE when the
                 \* provider call or json.loads raised
    vfn,         \* the generator whose loop runs ("none" before)
    vpass,       \* how many passes of the loop have run
    vout,        \* the list the latest pass returned
    vprev,       \* the list the pass before it returned
    \* ---- generate_test_cases_for_scenarios, called on one scenario list
    nscen,       \* len(scenarios)
    reply,       \* per scenario, the provider's answer to its completion
                 \* call: 0 when the call raises, else an index in Replies
    ust,         \* per scenario, where its unit is: "queued" in the
                 \* executor, "running" in a worker, "finished" (future
                 \* done), "collected" (future.result() taken)
    all_results, \* the list the collecting loop appends to
    ppc,         \* the calling thread: "collecting", "failed" (an
                 \* exception left the with block), "returned"
    raised,      \* the exception on its way to the except branch
    ret,         \* the value the call returned (None before)
    calls,       \* how many calls were made with these scenarios and replies
    first,       \* the value the first of the two calls returned
    sent,        \* per scenario, the completion calls made for it in this call
    \* ---- generate_api_test_cases_for_scenarios, called on one scenario list
    bn,          \* len(scenarios); the scenarios are named by position
    bpos,        \* the loop variable i of range(0, len(scenarios), batch_size)
    bcalls,      \* the batches given to _generate_batch_test_cases so
                 \* far, each the positions of its scenarios
    banswers,    \* the provider's answer to each of those calls: 0 when
                 \* it raises, else an index in BatchReplies
    all_detailed_scenarios, \* the list the loop extends
    bpc,         \* "running" or "returned"
    bret,        \* the value the call returned (None before)
    \* ---- one request with an uploaded API document
    rdoc,        \* json.load of the uploaded file: [ok, v]
    rhandler,    \* "analyze_api" or "generate_api_tests_from_file"
    rpc,         \* where the request is: "loaded", "detected", "parsed",
                 \* "generated", "done"
    document_type, \* what detect_api_document_type returned ("none" before)
    parsed_data, \* the endpoints of the parsed document
    model_calls, \* completion calls made to the model so far
    rresp,       \* the response: [status, body] ("none" before)
    \* ---- one HTTP request to a generation endpoint
    hendpoint,   \* "analyze", "generate", "generate_test_cases" or
                 \* "generate_api_test_cases"
    hinput,      \* what the client sent
    hreply,      \* the provider's outcome for the completion call
    hpc,         \* "received", "computed" (the core function ended), "done"
    hcore,       \* how the core function ended: [exc, val]
    hfile,       \* the temporary image file: "none", "exists", "deleted"
    hresp        \* the response: [status, body] ("none" before)

decVars == <<dpre, dmid, dpost, dfn, dout>>
valVars == <<vin, vfn, vpass, vout, vprev>>
parVars ==
    <<nscen, reply, ust, all_results, ppc, raised, ret, calls, first, sent>>
batVars == <<bn, bpos, bcalls, banswers, all_detailed_scenarios, bpc, bret>>
reqVars == <<rdoc, rhandler, rpc, document_type, parsed_data, model_calls, rresp>>
hanVars == <<hendpoint, hinput, hreply, hpc, hcore, hfile, hresp>>

----------------------------------------------------------------------------
(* Characters *)

WS == " "
QUOTE == "\""
DIGIT == "1"

\* the string literal "name"
Q(name) == <<"\"", name, "\"">>

\* Code-point order of the characters the model uses (Python compares str
\* by code point).
CharOrder ==
    <<" ", "\"", ",", "1", ":", "[", "]", "a", "b", "c1", "c2", "error",
      "id", "null", "scenarios", "t1", "t2", "test_cases", "title", "w",
      "x", "{", "}">>

RECURSIVE RankFrom(_, _)
RankFrom(c, i) ==
    IF i > Len(CharOrder) THEN i
    ELSE IF CharOrder[i] = c THEN i
    ELSE RankFrom(c, i + 1)

Rank(c) == RankFrom(c, 1)

\* s1 < s2 for two Python str values
RECURSIVE StrLess(_, _)
StrLess(s1, s2) ==
    IF s2 = <<>> THEN FALSE
    ELSE IF s1 = <<>> THEN TRUE
    ELSE IF Head(s1) = Head(s2) THEN StrLess(Tail(s1), Tail(s2))
    ELSE Rank(Head(s1)) < Rank(Head(s2))

----------------------------------------------------------------------------
(* JSON values, as json.loads builds them *)

JNull == [t |-> "null", v |-> 0]              \* None
JNum(n) == [t |-> "num", v |-> n]
JStr(s) == [t |-> "str", v |-> s]             \* s: a sequence of characters
JArr(a) == [t |-> "arr", v |-> a]             \* a: a sequence of values
JObj(o) == [t |-> "obj", v |-> o]             \* o: a function from keys
EmptyObj == JObj([k \in {} |-> JNull])

Key(name) == <<name>>
Obj1(k, x) == JObj(Key(k) :> x)
Obj2(k1, x1, k2, x2) == JObj(Key(k1) :> x1 @@ Key(k2) :> x2)

IsObj(x) == x.t = "obj"
IsArr(x) == x.t = "arr"
Has(x, name) == IsObj(x) /\ Key(name) \in DOMAIN x.v
Get(x, name) == x.v[Key(name)]

\* dict[key] = value: a later duplicate key replaces the earlier value
Put(o, k, x) == [j \in DOMAIN o \cup {k} |-> IF j = k THEN x ELSE o[j]]

\* bool(x)
Truthy(x) ==
    CASE x.t = "null" -> FALSE
      [] x.t = "num" -> x.v # 0
      [] x.t = "str" -> x.v # <<>>
      [] x.t = "arr" -> x.v # <<>>
      [] x.t = "obj" -> DOMAIN x.v # {}

----------------------------------------------------------------------------
(* json.loads *)

At(s, i) == IF i >= 1 /\ i <= Len(s) THEN s[i] ELSE "<eof>"

MinOf(S) == CHOOSE j \in S : \A k \in S : j <= k
MaxOf(S) == CHOOSE j \in S : \A k \in S : j >= k

\* the first index >= i that holds no whitespace (Len(s) + 1 at the end)
SkipWs(s, i) ==
    IF At(s, i) # WS THEN i
    ELSE MinOf({j \in i .. Len(s) + 1 : At(s, j) # WS})

PFail == [ok |-> FALSE, v |-> JNull, i |-> 0]
POk(x, i) == [ok |-> TRUE, v |-> x, i |-> i]

\* the first index >= i holding c, or 0
FindFrom(s, c, i) ==
    LET at == {j \in i .. Len(s) : s[j] = c}
    IN  IF at = {} THEN 0 ELSE MinOf(at)

RECURSIVE DigitsEnd(_, _)
DigitsEnd(s, i) == IF At(s, i) = DIGIT THEN DigitsEnd(s, i + 1) ELSE i

RECURSIVE DecimalOf(_)
\* the number a run of n digits "1" denotes
DecimalOf(n) == IF n = 0 THEN 0 ELSE 10 * DecimalOf(n - 1) + 1

\* a string literal at i: up to the next quote (no escapes in the model)
ParseString(s, i) ==
    LET j == FindFrom(s, QUOTE, i + 1)
    IN  IF At(s, i) = QUOTE /\ j > 0
        THEN POk(JStr(SubSeq(s, i + 1, j - 1)), j + 1)
        ELSE PFail

RECURSIVE ParseValue(_, _)
RECURSIVE ParseElems(_, _, _)
RECURSIVE ParseMembers(_, _, _)

\* the elements of an array, after "[" or ","
ParseElems(s, i, acc) ==
    LET r == ParseValue(s, SkipWs(s, i))
        k == SkipWs(s, r.i)
    IN  IF ~r.ok THEN PFail
        ELSE IF At(s, k) = "," THEN ParseElems(s, k + 1, Append(acc, r.v))
        ELSE IF At(s, k) = "]" THEN POk(JArr(Append(acc, r.v)), k + 1)
        ELSE PFail

\* the members of an object, after "{" or ","
ParseMembers(s, i, acc) ==
    LET kr == ParseString(s, SkipWs(s, i))
        c == SkipWs(s, kr.i)
        r == ParseValue(s, SkipWs(s, c + 1))
        k == SkipWs(s, r.i)
    IN  IF ~kr.ok \/ At(s, c) # ":" THEN PFail
        ELSE IF ~r.ok THEN PFail
        ELSE IF At(s, k) = ","
             THEN ParseMembers(s, k + 1, Put(acc, kr.v.v, r.v))
        ELSE IF At(s, k) = "}"
             THEN POk(JObj(Put(acc, kr.v.v, r.v)), k + 1)
        ELSE PFail

ParseValue(s, i) ==
    CASE At(s, i) = QUOTE -> ParseString(s, i)
      [] At(s, i) = DIGIT ->
            POk(JNum(DecimalOf(DigitsEnd(s, i) - i)), DigitsEnd(s, i))
      [] At(s, i) = "null" -> POk(JNull, i + 1)
      [] At(s, i) = "[" ->
            IF At(s, SkipWs(s, i + 1)) = "]"
            THEN POk(JArr(<<>>), SkipWs(s, i + 1) + 1)
            ELSE ParseElems(s, i + 1, <<>>)
      [] At(s, i) = "{" ->
            IF At(s, SkipWs(s, i + 1)) = "}"
            THEN POk(EmptyObj, SkipWs(s, i + 1) + 1)
            ELSE ParseMembers(s, i + 1, [k \in {} |-> JNull])
      [] OTHER -> PFail

\* json.loads(s): one value, whitespace around it, nothing else; ok = FALSE
\* stands for json.JSONDecodeError
JsonLoads(s) ==
    LET r == ParseValue(s, SkipWs(s, 1))
    IN  IF r.ok /\ SkipWs(s, r.i) = Len(s) + 1 THEN r ELSE PFail

----------------------------------------------------------------------------
(* str.strip, re.search and slicing *)

\* the last index <= i that holds no whitespace, or 0
LastNonWs(s, i) ==
    LET at == {j \in 1 .. i : s[j] # WS}
    IN  IF at = {} THEN 0 ELSE MaxOf(at)

\* content.strip()
Strip(s) == SubSeq(s, SkipWs(s, 1), LastNonWs(s, Len(s)))

\* the last index <= i holding c, or 0
FindLast(s, c, i) ==
    LET at == {j \in 1 .. i : s[j] = c}
    IN  IF at = {} THEN 0 ELSE MaxOf(at)

\* a wrong variant: a lazy .*? : the span ends at the first `close`
SearchLazy(s, open, close) ==
    LET a == FindFrom(s, open, 1)
        b == IF a > 0 THEN FindFrom(s, close, a + 1) ELSE 0
    IN  IF a > 0 /\ b > a
        THEN [found |-> TRUE, group |-> SubSeq(s, a, b)]
        ELSE [found |-> FALSE, group |-> <<>>]

\* re.search(open .* close, s, re.DOTALL): the greedy span from the first
\* `open` to the last `close` after it; found = FALSE when there is none
Search(s, open, close) ==
    LET a == FindFrom(s, open, 1)
        b == FindLast(s, close, Len(s))
    IN  IF a > 0 /\ b > a
        THEN [found |-> TRUE, group |-> SubSeq(s, a, b)]
        ELSE [found |-> FALSE, group |-> <<>>]

ExcerptLen == 500

\* a wrong variant: the whole content, not cut
ExcerptUncut(s) == s

\* content[:500]
Excerpt(s) == SubSeq(s, 1, IF Len(s) < ExcerptLen THEN Len(s) ELSE ExcerptLen)

ParseErrorPrefix == "Failed to parse AI response as JSON: "

\* {"error": f"Failed to parse AI response as JSON: {content[:500]}"}
ParseError(content) == Obj1("error", JStr(<<ParseErrorPrefix>> \o Excerpt(content)))

----------------------------------------------------------------------------
(* The parse steps (the spec's decode) *)

\* a wrong variant: the {...} span is tried before the direct parse
decode_batch_span_first(content) ==
    LET direct == JsonLoads(content)
        json_match == Search(content, "{", "}")
        object == JsonLoads(json_match.group)
    IN  IF json_match.found /\ object.ok
        THEN [layer |-> "object", value |-> object.v]
        ELSE IF direct.ok THEN [layer |-> "direct", value |-> direct.v]
        ELSE [layer |-> "error", value |-> ParseError(content)]

\* a wrong variant: the [...] span is tried before the {...} span
decode_batch_array_first(content) ==
    LET direct == JsonLoads(content)
        json_match == Search(content, "{", "}")
        object == JsonLoads(json_match.group)
        array_match == IF content # <<>> THEN Search(content, "[", "]")
                       ELSE [found |-> FALSE, group |-> <<>>]
        scenarios_array == JsonLoads(array_match.group)
    IN  IF direct.ok THEN [layer |-> "direct", value |-> direct.v]
        ELSE IF array_match.found /\ scenarios_array.ok
             THEN [layer |-> "array",
                   value |-> Obj1("scenarios", scenarios_array.v)]
        ELSE IF json_match.found /\ object.ok
             THEN [layer |-> "object", value |-> object.v]
        ELSE [layer |-> "error", value |-> ParseError(content)]

\* generate_test_cases_for_batch, from the stripped content on: direct
\* parse, then the {...} span, then the [...] span wrapped as
\* {"scenarios": array}, then the error value
decode_batch_unstripped(content) ==
    LET direct == JsonLoads(content)
        json_match == Search(content, "{", "}")
        object == JsonLoads(json_match.group)
        array_match == IF content # <<>> THEN Search(content, "[", "]")
                       ELSE [found |-> FALSE, group |-> <<>>]
        scenarios_array == JsonLoads(array_match.group)
    IN  IF direct.ok THEN [layer |-> "direct", value |-> direct.v]
        ELSE IF json_match.found /\ object.ok
             THEN [layer |-> "object", value |-> object.v]
        ELSE IF array_match.found /\ scenarios_array.ok
             THEN [layer |-> "array",
                   value |-> Obj1("scenarios", scenarios_array.v)]
        ELSE [layer |-> "error", value |-> ParseError(content)]

decode_batch(raw) == decode_batch_unstripped(Strip(raw))

\* generate_test_scenarios_and_cases: direct parse, then the {...} span,
\* then the error value (no array layer)
decode_scenarios(raw) ==
    LET content == Strip(raw)
        direct == JsonLoads(content)
        json_match == Search(content, "{", "}")
        object == JsonLoads(json_match.group)
    IN  IF direct.ok THEN [layer |-> "direct", value |-> direct.v]
        ELSE IF json_match.found /\ object.ok
             THEN [layer |-> "object", value |-> object.v]
        ELSE [layer |-> "error", value |-> ParseError(content)]

\* _generate_batch_test_cases: direct parse, then the [...] span, then a
\* list holding the error value
decode_api_batch(raw) ==
    LET content == Strip(raw)
        direct == JsonLoads(content)
        json_match == Search(content, "[", "]")
        array == JsonLoads(json_match.group)
    IN  IF direct.ok THEN [layer |-> "direct", value |-> direct.v]
        ELSE IF json_match.found /\ array.ok
             THEN [layer |-> "array", value |-> array.v]
        ELSE [layer |-> "error", value |-> JArr(<<ParseError(content)>>)]

----------------------------------------------------------------------------
RECURSIVE SeqsUpTo(_, _)
\* the sequences over S of length at most n
SeqsUpTo(S, n) ==
    IF n = 0 THEN {<<>>}
    ELSE LET shorter == SeqsUpTo(S, n - 1)
         IN  shorter \cup {Append(p, c) : p \in shorter, c \in S}

vars == <<decVars, valVars, parVars, batVars, reqVars, hanVars>>

\* the parts of the state a specification leaves alone
IdleDecode ==
    /\ dpre = <<>> /\ dmid = 1 /\ dpost = <<>>
    /\ dfn = "none"
    /\ dout = [layer |-> "none", value |-> JNull]

IdleValidate ==
    /\ vin = [ok |-> FALSE, v |-> JNull]
    /\ vfn = "none" /\ vpass = 0 /\ vout = <<>> /\ vprev = <<>>

IdleParallel ==
    /\ nscen = 0 /\ reply = <<>> /\ ust = <<>> /\ all_results = <<>>
    /\ ppc = "returned" /\ raised = "none"
    /\ ret = Obj1("scenarios", JArr(<<>>))
    /\ calls = 2 /\ first = ret /\ sent = <<>>

IdleBatch ==
    /\ bn = 0 /\ bpos = 0 /\ bcalls = <<>> /\ banswers = <<>>
    /\ all_detailed_scenarios = <<>>
    /\ bpc = "returned" /\ bret = JArr(<<>>)

IdleRequest ==
    /\ rdoc = [ok |-> FALSE, v |-> JNull]
    /\ rhandler = "none" /\ rpc = "done" /\ document_type = "none"
    /\ parsed_data = <<>> /\ model_calls = 0
    /\ rresp = [status |-> "none", body |-> JNull]

IdleHandler ==
    /\ hendpoint = "none" /\ hinput = "none" /\ hreply = 0
    /\ hpc = "done" /\ hcore = [exc |-> "none", val |-> JNull]
    /\ hfile = "none"
    /\ hresp = [status |-> "none", body |-> JNull]

----------------------------------------------------------------------------
(* The validation loops (the spec's validate) *)

MaxScen == 2

\* dict.setdefault(k, d)
SetDefault(o, k, d) == IF Key(k) \in DOMAIN o THEN o ELSE Put(o, Key(k), d)

Text(word) == JStr(<<word>>)
EmptyStr == JStr(<<>>)
EmptyList == JArr(<<>>)

\* the setdefault calls of generate_api_test_cases on one test case
api_defaults(tc) ==
    SetDefault(SetDefault(SetDefault(SetDefault(SetDefault(SetDefault(
    SetDefault(SetDefault(tc,
        "description", EmptyStr),
        "priority", Text("medium")),
        "category", Text("functional")),
        "preconditions", EmptyList),
        "steps", EmptyList),
        "test_data", EmptyObj),
        "expected_result", EmptyStr),
        "validation_criteria", EmptyList)

\* the setdefault calls of generate_website_test_scenarios on one test case
website_defaults(tc) ==
    SetDefault(SetDefault(SetDefault(SetDefault(SetDefault(SetDefault(tc,
        "description", EmptyStr),
        "priority", Text("medium")),
        "category", Text("functional")),
        "preconditions", EmptyList),
        "steps", EmptyList),
        "test_data", EmptyObj)

RECURSIVE api_test_cases(_)
\* validated_test_cases of generate_api_test_cases
api_test_cases(cases) ==
    IF cases = <<>> THEN <<>>
    ELSE LET test_case == Head(cases)
         IN  IF IsObj(test_case) /\ Has(test_case, "title")
             THEN <<JObj(api_defaults(test_case.v))>>
                      \o api_test_cases(Tail(cases))
             ELSE api_test_cases(Tail(cases))

\* a wrong variant: every kept test case is appended twice
RECURSIVE website_test_cases_twice(_)
website_test_cases_twice(cases) ==
    IF cases = <<>> THEN <<>>
    ELSE LET test_case == Head(cases)
         IN  IF IsObj(test_case) /\ Has(test_case, "title")
             THEN <<JObj(website_defaults(test_case.v)),
                    JObj(website_defaults(test_case.v))>>
                      \o website_test_cases_twice(Tail(cases))
             ELSE website_test_cases_twice(Tail(cases))

RECURSIVE website_test_cases(_)
\* validated_test_cases of generate_website_test_scenarios
website_test_cases(cases) ==
    IF cases = <<>> THEN <<>>
    ELSE LET test_case == Head(cases)
         IN  IF IsObj(test_case) /\ Has(test_case, "title")
             THEN <<JObj(website_defaults(test_case.v))>>
                      \o website_test_cases(Tail(cases))
             ELSE website_test_cases(Tail(cases))

\* scenario['test_cases'] after "Ensure test_cases is a list"
CasesOf(scenario) ==
    IF IsArr(Get(scenario, "test_cases"))
    THEN Get(scenario, "test_cases").v ELSE <<>>

\* the condition both loops keep a scenario under
Kept(scenario) ==
    IsObj(scenario) /\ Has(scenario, "title") /\ Has(scenario, "test_cases")

RECURSIVE validate_api(_)
\* the loop of generate_api_test_cases over the items of `scenarios`
validate_api(items) ==
    IF items = <<>> THEN <<>>
    ELSE LET scenario == Head(items)
         IN  IF Kept(scenario)
             THEN <<JObj(Put(scenario.v, Key("test_cases"),
                             JArr(api_test_cases(CasesOf(scenario)))))>>
                      \o validate_api(Tail(items))
             ELSE validate_api(Tail(items))

RECURSIVE validate_website(_)
\* the loop of generate_website_test_scenarios
validate_website(items) ==
    IF items = <<>> THEN <<>>
    ELSE LET scenario == Head(items)
         IN  IF Kept(scenario)
             THEN <<JObj(Put(SetDefault(scenario.v, "category",
                                        Text("website_testing")),
                             Key("test_cases"),
                             JArr(website_test_cases(CasesOf(scenario)))))>>
                      \o validate_website(Tail(items))
             ELSE validate_website(Tail(items))

RECURSIVE KeysOf(_)
\* the keys of a dict, each a str
KeysOf(keys) ==
    IF keys = {} THEN <<>>
    ELSE LET k == CHOOSE j \in keys : TRUE
         IN  <<JStr(k)>> \o KeysOf(keys \ {k})

\* `for scenario in scenarios`: ok = FALSE when scenarios cannot be
\* iterated (TypeError); a dict yields its keys, a str its characters
Iterate(x) ==
    CASE x.t = "arr" -> [ok |-> TRUE, items |-> x.v]
      [] x.t = "str" ->
            [ok |-> TRUE, items |-> [i \in 1 .. Len(x.v) |-> JStr(<<x.v[i]>>)]]
      [] x.t = "obj" -> [ok |-> TRUE, items |-> KeysOf(DOMAIN x.v)]
      [] OTHER -> [ok |-> FALSE, items |-> <<>>]

FullCase(title, priority, category) ==
    JObj(Key("title") :> Text(title) @@ Key("description") :> Text("w")
         @@ Key("priority") :> Text(priority)
         @@ Key("category") :> Text(category)
         @@ Key("preconditions") :> JArr(<<Text("w")>>)
         @@ Key("steps") :> JArr(<<Text("w")>>)
         @@ Key("test_data") :> Obj1("method", Text("GET")))

\* the list the except branch of generate_api_test_cases returns
api_fallback ==
    <<JObj(Key("title") :> Text("Basic API Endpoint Testing")
           @@ Key("description") :> Text("w")
           @@ Key("category") :> Text("api_testing")
           @@ Key("test_cases") :> JArr(<<
                JObj(FullCase("Successful API Request", "high",
                              "functional").v
                     @@ Key("expected_result") :> Text("w")
                     @@ Key("validation_criteria") :> JArr(<<Text("w")>>)),
                JObj(FullCase("Invalid Request Handling", "medium",
                              "negative").v
                     @@ Key("expected_result") :> Text("w")
                     @@ Key("validation_criteria") :> JArr(<<Text("w")>>))
              >>))>>

\* the list the except branch of generate_website_test_scenarios returns
website_fallback ==
    <<JObj(Key("title") :> Text("Basic Website Functionality Test")
           @@ Key("description") :> Text("w")
           @@ Key("category") :> Text("website_testing")
           @@ Key("test_cases") :> JArr(<<
                FullCase("Website Loads Successfully", "high", "functional"),
                FullCase("HTTPS Security Check", "high", "security")>>))>>

\* generate_api_test_cases from json.loads(content) on
generate_api_test_cases(decoded) ==
    IF decoded.ok /\ Iterate(decoded.v).ok
    THEN validate_api(Iterate(decoded.v).items)
    ELSE api_fallback

\* generate_website_test_scenarios from json.loads(content) on
generate_website_test_scenarios(decoded) ==
    IF decoded.ok /\ Iterate(decoded.v).ok
    THEN validate_website(Iterate(decoded.v).items)
    ELSE website_fallback

(* Decoded replies given to the loops *)

CaseBare == Obj1("title", Text("c1"))
CaseFull == JObj(Key("title") :> Text("c2") @@ Key("priority") :> Text("high")
                 @@ Key("steps") :> JArr(<<Text("x")>>)
                 @@ Key("test_data") :> Obj1("a", JNum(1)))
CaseNoTitle == Obj1("priority", Text("high"))
CaseNoDict == Text("x")

CaseLists ==
    { <<>>, <<CaseBare>>, <<CaseFull>>, <<CaseNoTitle, CaseBare>>,
      <<CaseFull, CaseNoDict>>, <<CaseBare, CaseFull>> }

Titles == {"t1", "t2"}

\* what a model may put in the place of one scenario
Entries ==
    {JObj(Key("title") :> Text(t) @@ Key("test_cases") :> JArr(c)) :
        t \in Titles, c \in CaseLists}
    \cup {JObj(Key("title") :> Text(t) @@ Key("test_cases") :> Text("x")) :
            t \in Titles}
    \cup {Obj2("title", Text(t), "category", Text("security")) : t \in Titles}
    \cup {Obj2("id", Text("a"), "test_cases", JArr(c)) : c \in CaseLists}
    \cup {Text("x"), JNull}

DecodedReplies ==
    {[ok |-> TRUE, v |-> JArr(x)] : x \in SeqsUpTo(Entries, MaxScen)}
    \cup {[ok |-> TRUE, v |-> Obj1("scenarios", JArr(<<>>))],
          [ok |-> TRUE, v |-> Text("x")],
          [ok |-> TRUE, v |-> JNum(1)],
          [ok |-> TRUE, v |-> JNull],
          [ok |-> FALSE, v |-> JNull]}

InitValidate ==
    /\ vin \in DecodedReplies
    /\ vfn = "none" /\ vpass = 0 /\ vout = <<>> /\ vprev = <<>>
    /\ IdleDecode
    /\ IdleParallel /\ IdleBatch /\ IdleRequest /\ IdleHandler

\* generate_api_test_cases runs on the reply
GenerateApiTestCases ==
    /\ vpass = 0
    /\ vfn' = "generate_api_test_cases"
    /\ vpass' = 1
    /\ vout' = generate_api_test_cases(vin)
    /\ UNCHANGED <<vin, vprev, decVars, parVars, batVars, reqVars, hanVars>>

\* generate_website_test_scenarios runs on the reply
GenerateWebsiteTestScenarios ==
    /\ vpass = 0
    /\ vfn' = "generate_website_test_scenarios"
    /\ vpass' = 1
    /\ vout' = generate_website_test_scenarios(vin)
    /\ UNCHANGED <<vin, vprev, decVars, parVars, batVars, reqVars, hanVars>>

\* the same loop runs over the list it returned
ValidateAgain ==
    /\ vpass = 1
    /\ vpass' = 2
    /\ vprev' = vout
    /\ vout' = IF vfn = "generate_api_test_cases"
               THEN validate_api(vout) ELSE validate_website(vout)
    /\ UNCHANGED <<vin, vfn, decVars, parVars, batVars, reqVars, hanVars>>

NextValidate ==
    GenerateApiTestCases \/ GenerateWebsiteTestScenarios \/ ValidateAgain

SpecValidate == InitValidate /\ [][NextValidate]_vars

----------------------------------------------------------------------------
(* Model replies: prose, a JSON candidate, prose *)

MaxProse == 1
LongExtra == 2

ProseChars == {" ", "w", "{", "}", "[", "]", "\""}

Prose == SeqsUpTo(ProseChars, MaxProse)

\* JSON candidates with the value each denotes (valid = FALSE: not JSON)
ShortMids ==
    << [txt |-> <<"{", "}">>, valid |-> TRUE, val |-> EmptyObj],
       [txt |-> <<"{">> \o Q("scenarios") \o <<":", "[", "]", "}">>,
        valid |-> TRUE, val |-> Obj1("scenarios", JArr(<<>>))],
       [txt |-> <<"{">> \o Q("a") \o <<":", "1", "}">>,
        valid |-> TRUE, val |-> Obj1("a", JNum(1))],
       [txt |-> <<"{">> \o Q("a") \o <<":", "[", "1", "]", ",", " ">>
                \o Q("b") \o <<":", "null", "}">>,
        valid |-> TRUE, val |-> Obj2("a", JArr(<<JNum(1)>>), "b", JNull)],
       [txt |-> <<"{">> \o Q("a") \o <<":", "\"", "}", "\"", "}">>,
        valid |-> TRUE, val |-> Obj1("a", JStr(<<"}">>))],
       [txt |-> <<"[", "]">>, valid |-> TRUE, val |-> JArr(<<>>)],
       [txt |-> <<"[", "1", ",", "1", "1", "]">>,
        valid |-> TRUE, val |-> JArr(<<JNum(1), JNum(11)>>)],
       [txt |-> <<"[", "{">> \o Q("id") \o <<":">> \o Q("a") \o <<"}", "]">>,
        valid |-> TRUE, val |-> JArr(<<Obj1("id", JStr(<<"a">>))>>)],
       [txt |-> <<"1">>, valid |-> TRUE, val |-> JNum(1)],
       [txt |-> <<"null">>, valid |-> TRUE, val |-> JNull],
       [txt |-> Q("x"), valid |-> TRUE, val |-> JStr(<<"x">>)],
       [txt |-> <<"{">> \o Q("a") \o <<":">>, valid |-> FALSE, val |-> JNull],
       [txt |-> <<"w", " ", "w">>, valid |-> FALSE, val |-> JNull],
       [txt |-> <<>>, valid |-> FALSE, val |-> JNull] >>

\* prose of about ExcerptLen characters
LongMids ==
    [k \in 1 .. (LongExtra + 2) |->
        [txt |-> [i \in 1 .. (ExcerptLen - 2 + k) |-> "w"],
         valid |-> FALSE, val |-> JNull]]

Mids == ShortMids \o LongMids

\* response.choices[0].message.content
Raw == dpre \o Mids[dmid].txt \o dpost

\* a short reply with any prose around it, or a reply of about ExcerptLen
\* characters of prose
InitDecode ==
    /\ \/ /\ dmid \in 1 .. Len(ShortMids)
          /\ dpre \in Prose
          /\ dpost \in Prose
       \/ /\ dmid \in (Len(ShortMids) + 1) .. Len(Mids)
          /\ dpre \in {<<>>, <<" ">>}
          /\ dpost = <<>>
    /\ dfn = "none"
    /\ dout = [layer |-> "none", value |-> JNull]
    /\ IdleValidate
    /\ IdleParallel /\ IdleBatch /\ IdleRequest /\ IdleHandler

\* the parse step of generate_test_cases_for_batch
DecodeBatch ==
    /\ dfn = "none"
    /\ dfn' = "generate_test_cases_for_batch"
    /\ dout' = decode_batch(Raw)
    /\ UNCHANGED <<dpre, dmid, dpost, valVars, parVars, batVars, reqVars, hanVars>>

\* the parse step of generate_test_scenarios_and_cases
DecodeScenarios ==
    /\ dfn = "none"
    /\ dfn' = "generate_test_scenarios_and_cases"
    /\ dout' = decode_scenarios(Raw)
    /\ UNCHANGED <<dpre, dmid, dpost, valVars, parVars, batVars, reqVars, hanVars>>

\* the parse step of _generate_batch_test_cases
DecodeApiBatch ==
    /\ dfn = "none"
    /\ dfn' = "_generate_batch_test_cases"
    /\ dout' = decode_api_batch(Raw)
    /\ UNCHANGED <<dpre, dmid, dpost, valVars, parVars, batVars, reqVars, hanVars>>

NextDecode == DecodeBatch \/ DecodeScenarios \/ DecodeApiBatch

SpecDecode == InitDecode /\ [][NextDecode]_vars

----------------------------------------------------------------------------
(* generate_test_cases_for_scenarios: one unit per scenario on a pool *)

MaxN == 2
PoolExtra == 1
max_workers == 5

\* the text {"scenarios": [items]}
ScenariosText(items) ==
    <<"{">> \o Q("scenarios") \o <<":", "[">> \o items \o <<"]", "}">>

\* the text {"id": "id", "title": "title"}
ScenarioText(id, title) ==
    <<"{">> \o Q("id") \o <<":">> \o Q(id) \o <<",", " ">>
        \o Q("title") \o <<":">> \o Q(title) \o <<"}">>

\* the text {"title": "title"}
UnnumberedText(title) == <<"{">> \o Q("title") \o <<":">> \o Q(title) \o <<"}">>

\* what the model may reply to one unit's completion call
Replies ==
    << ScenariosText(ScenarioText("b", "t1")),
       ScenariosText(ScenarioText("a", "t1")),
       ScenariosText(ScenarioText("a", "t2")),
       ScenariosText(UnnumberedText("t1")),
       ScenariosText(UnnumberedText("t2")),
       ScenariosText(<<"{">> \o Q("id") \o <<":", "1", "}">>),
       ScenariosText(<<"{", "}">>),
       ScenariosText(Q("x")),
       ScenariosText(<<>>),
       <<"{">> \o Q("scenarios") \o <<":">> \o Q("x") \o <<"}">>,
       <<"[">> \o ScenarioText("a", "t1") \o <<"]">>,
       <<"null">>,
       <<"w", " ", "w">>,
       <<"7">>,
       Q("x") >>

\* the provider call raises instead of answering
ProviderError == 0

ReplyOf(text) == CHOOSE r \in 1 .. Len(Replies) : Replies[r] = text
GoodReply == ReplyOf(ScenariosText(ScenarioText("b", "t1")))
BareArrayReply == ReplyOf(<<"[">> \o ScenarioText("a", "t1") \o <<"]">>)

ErrorValue(message) == Obj1("error", Text(message))

\* generate_test_cases_for_batch([scenario]) when the provider answers r
generate_test_cases_for_batch(r) ==
    IF r = ProviderError THEN ErrorValue("provider error")
    ELSE decode_batch(Replies[r]).value

Raise(exception) == [exc |-> exception, val |-> JNull]
Returns(x) == [exc |-> "none", val |-> x]

\* "scenarios" in result, for a dict, a list or a str
Contains(result, name) ==
    CASE result.t = "obj" -> Has(result, name)
      [] result.t = "arr" ->
            \E i \in 1 .. Len(result.v) : result.v[i] = Text(name)
      [] result.t = "str" -> \E i \in 1 .. Len(result.v) : result.v[i] = name

\* result["scenarios"][0] for a truthy result["scenarios"]
FirstOf(x) ==
    CASE x.t = "arr" -> Returns(x.v[1])
      [] x.t = "str" -> Returns(JStr(<<x.v[1]>>))
      [] x.t = "obj" -> Raise("KeyError")
      [] x.t = "num" -> Raise("TypeError")

\* process_single_scenario from the result of the batch function on: the
\* scenario or None it returns, or the exception it raises
process_single_scenario(result) ==
    IF result.t \in {"num", "null"} THEN Raise("TypeError")
    ELSE IF Contains(result, "scenarios")
    THEN IF ~IsObj(result) THEN Raise("TypeError")
         ELSE IF Truthy(Get(result, "scenarios"))
              THEN FirstOf(Get(result, "scenarios"))
              ELSE Returns(JNull)
    ELSE IF IsObj(result) THEN Returns(JNull)
    ELSE Raise("AttributeError")

\* per answer of the provider, what the unit's future holds
FutureOf ==
    [r \in 0 .. Len(Replies) |->
        process_single_scenario(generate_test_cases_for_batch(r))]

\* what future.result() gives for scenario i
UnitResult(i) == FutureOf[reply[i]]

\* x.get('id', '')
SortKey(x) == IF Has(x, "id") THEN Get(x, "id") ELSE EmptyStr

\* k1 < k2 for two keys of one type
KeyLess(k1, k2) == IF k1.t = "str" THEN StrLess(k1.v, k2.v) ELSE k1.v < k2.v

RECURSIVE InsertByKey(_, _)
\* x put behind every element whose key is not greater (the sort is stable)
InsertByKey(sorted, x) ==
    IF sorted = <<>> THEN <<x>>
    ELSE IF KeyLess(SortKey(x), SortKey(Head(sorted)))
         THEN <<x>> \o sorted
         ELSE <<Head(sorted)>> \o InsertByKey(Tail(sorted), x)

RECURSIVE SortById(_)
SortById(rs) ==
    IF rs = <<>> THEN <<>>
    ELSE InsertByKey(SortById(SubSeq(rs, 1, Len(rs) - 1)), rs[Len(rs)])

\* `if scenario_result:`
KeepResult(x) == Truthy(x)

\* `if all_results: all_results.sort(key=lambda x: x.get('id', ''))` and
\* the return: the keys must be of one type that orders (str, or numbers)
SortAndReturn(rs) ==
    IF rs = <<>> THEN Obj1("scenarios", JArr(<<>>))
    ELSE IF \E i \in 1 .. Len(rs) : ~IsObj(rs[i])
    THEN ErrorValue("AttributeError")
    ELSE IF /\ Len(rs) >= 2
            /\ ~ \/ \A i \in 1 .. Len(rs) : SortKey(rs[i]).t = "str"
                 \/ \A i \in 1 .. Len(rs) : SortKey(rs[i]).t = "num"
    THEN ErrorValue("TypeError")
    ELSE Obj1("scenarios", JArr(SortById(rs)))

Units == 1 .. nscen
Running == {i \in Units : ust[i] = "running"}

\* a wrong variant: a worker for every submitted unit
WorkerPerUnit == TRUE

\* ThreadPoolExecutor(max_workers=5): a worker is free
WorkerFree == Cardinality(Running) < max_workers

StartCall ==
    /\ ust = [i \in Units |-> "queued"]
    /\ sent = [i \in Units |-> 0]
    /\ all_results = <<>>
    /\ ppc = "collecting"
    /\ raised = "none"
    /\ ret = JNull

InitParallel ==
    /\ nscen \in 0 .. MaxN
    /\ reply \in [Units -> 0 .. Len(Replies)]
    /\ StartCall
    /\ calls = 1 /\ first = JNull
    /\ IdleDecode /\ IdleValidate /\ IdleBatch /\ IdleRequest /\ IdleHandler

\* more scenarios than workers, all answered well but perhaps one
InitPool ==
    /\ nscen \in (max_workers + 1) .. (max_workers + PoolExtra)
    /\ \E odd \in Units :
       \E r \in {ProviderError, GoodReply, BareArrayReply} :
            reply = [i \in Units |-> IF i = odd THEN r ELSE GoodReply]
    /\ StartCall
    /\ calls = 1 /\ first = JNull
    /\ IdleDecode /\ IdleValidate /\ IdleBatch /\ IdleRequest /\ IdleHandler

\* a free worker takes the oldest queued unit and calls the provider
Start(i) ==
    /\ ppc \in {"collecting", "failed"}
    /\ ust[i] = "queued"
    /\ \A j \in 1 .. (i - 1) : ust[j] # "queued"
    /\ WorkerFree
    /\ ust' = [ust EXCEPT ![i] = "running"]
    /\ sent' = [sent EXCEPT ![i] = @ + 1]
    /\ UNCHANGED <<nscen, reply, all_results, ppc, raised, ret, calls, first>>
    /\ UNCHANGED <<decVars, valVars, batVars, reqVars, hanVars>>

\* a wrong variant: a unit that failed is queued again
RetryOnFailure(r) ==
    IF FutureOf[r].exc # "none" \/ FutureOf[r].val.t = "null"
    THEN "queued" ELSE "finished"

\* process_single_scenario makes its one call and returns or raises: the
\* future is done, whatever the outcome
UnitEnds(r) == "finished"

\* process_single_scenario ends in its worker
Finish(i) ==
    /\ ust[i] = "running"
    /\ ust' = [ust EXCEPT ![i] = UnitEnds(reply[i])]
    /\ UNCHANGED <<nscen, reply, all_results, ppc, raised, ret, calls, first,
                   sent>>
    /\ UNCHANGED <<decVars, valVars, batVars, reqVars, hanVars>>

\* as_completed yields a done future and the loop body runs on it
Collect(i) ==
    /\ ppc = "collecting"
    /\ ust[i] = "finished"
    /\ ust' = [ust EXCEPT ![i] = "collected"]
    /\ IF UnitResult(i).exc # "none"
       THEN /\ ppc' = "failed"
            /\ raised' = UnitResult(i).exc
            /\ UNCHANGED all_results
       ELSE /\ all_results' = IF KeepResult(UnitResult(i).val)
                              THEN Append(all_results, UnitResult(i).val)
                              ELSE all_results
            /\ UNCHANGED <<ppc, raised>>
    /\ UNCHANGED <<nscen, reply, ret, calls, first, sent>>
    /\ UNCHANGED <<decVars, valVars, batVars, reqVars, hanVars>>

\* every future was collected: the with block ends, sort and return
Return ==
    /\ ppc = "collecting"
    /\ \A i \in Units : ust[i] = "collected"
    /\ ppc' = "returned"
    /\ ret' = SortAndReturn(all_results)
    /\ UNCHANGED <<nscen, reply, ust, all_results, raised, calls, first, sent>>
    /\ UNCHANGED <<decVars, valVars, batVars, reqVars, hanVars>>

\* a wrong variant: the with block is left without waiting
NoWait == TRUE

\* leaving the with block is shutdown(wait=True): every submitted unit,
\* the queued ones too, has run to its end
AllUnitsDone == \A i \in Units : ust[i] \in {"finished", "collected"}

\* the with block was left by an exception: shutdown(wait=True) has waited
\* for every unit, and the except branch returns the error value
ReturnError ==
    /\ ppc = "failed"
    /\ AllUnitsDone
    /\ ppc' = "returned"
    /\ ret' = ErrorValue(raised)
    /\ UNCHANGED <<nscen, reply, ust, all_results, raised, calls, first, sent>>
    /\ UNCHANGED <<decVars, valVars, batVars, reqVars, hanVars>>

\* the function is called a second time with the same scenarios, and the
\* model gives the same reply for each
CallAgain ==
    /\ ppc = "returned"
    /\ calls = 1
    /\ calls' = 2
    /\ first' = ret
    /\ ust' = [i \in Units |-> "queued"]
    /\ sent' = [i \in Units |-> 0]
    /\ all_results' = <<>>
    /\ ppc' = "collecting"
    /\ raised' = "none"
    /\ ret' = JNull
    /\ UNCHANGED <<nscen, reply>>
    /\ UNCHANGED <<decVars, valVars, batVars, reqVars, hanVars>>

NextParallel ==
    \/ \E i \in Units : Start(i)
    \/ \E i \in Units : Finish(i)
    \/ \E i \in Units : Collect(i)
    \/ Return
    \/ ReturnError
    \/ CallAgain

Spec == InitParallel /\ [][NextParallel]_vars

\* one call
NextPool ==
    \/ \E i \in Units : Start(i)
    \/ \E i \in Units : Finish(i)
    \/ \E i \in Units : Collect(i)
    \/ Return
    \/ ReturnError

SpecPool == InitPool /\ [][NextPool]_vars

----------------------------------------------------------------------------
(* generate_api_test_cases_for_scenarios: batches of three scenarios *)

MaxBatchN == 7
batch_size == 3
BatchThreshold == 5

\* the text [items]
ArrayText(items) == <<"[">> \o items \o <<"]">>

Comma == <<",", " ">>

\* what the model may reply to one batch's completion call
BatchReplies ==
    << ArrayText(ScenarioText("a", "t1")),
       ArrayText(ScenarioText("b", "t1") \o Comma \o ScenarioText("a", "t2")),
       ArrayText(ScenarioText("a", "t1") \o Comma \o ScenarioText("a", "t1")
                 \o Comma \o ScenarioText("a", "t1") \o Comma
                 \o ScenarioText("a", "t1")),
       ArrayText(<<>>),
       <<"w", " ">> \o ArrayText(ScenarioText("b", "t2")) \o <<" ", "w">>,
       <<"w", " ", "w">>,
       <<"null">>,
       ScenarioText("a", "t1") >>

\* _generate_batch_test_cases when the provider answers r: len() of the
\* parsed value raises for None and for a number, and every exception ends
\* in a list holding an error value
generate_batch_test_cases(r) ==
    IF r = ProviderError THEN JArr(<<ErrorValue("Error in batch generation")>>)
    ELSE LET d == decode_api_batch(BatchReplies[r])
         IN  IF d.value.t \in {"num", "null"}
             THEN JArr(<<ErrorValue("Error in batch generation")>>)
             ELSE d.value

\* per answer of the provider, what _generate_batch_test_cases returns
BatchResultOf ==
    [r \in 0 .. Len(BatchReplies) |-> generate_batch_test_cases(r)]

Least(a, b) == IF a <= b THEN a ELSE b

\* a wrong variant: scenarios[i:i + batch_size + 1]
BatchOverlapping(n, i) ==
    [k \in 1 .. (Least(i + batch_size + 1, n) - i) |-> i + k]

\* scenarios[i:i + batch_size], as positions of a list of n scenarios
Batch(n, i) == [k \in 1 .. (Least(i + batch_size, n) - i) |-> i + k]

\* `if isinstance(batch_result, list) and len(batch_result) > 0: extend`
Extend(all, batch_result) ==
    IF IsArr(batch_result) /\ Len(batch_result.v) > 0
    THEN all \o batch_result.v ELSE all

\* a wrong variant: batches as soon as one batch cannot hold them all
InBatchesOverBatchSize(n) == n > batch_size

\* `if len(scenarios) > 5`
InBatches(n) == n > BatchThreshold

InitBatch ==
    /\ bn \in 0 .. MaxBatchN
    /\ bpos = 0 /\ bcalls = <<>> /\ banswers = <<>>
    /\ all_detailed_scenarios = <<>>
    /\ bpc = "running" /\ bret = JNull
    /\ IdleDecode /\ IdleValidate /\ IdleParallel /\ IdleRequest /\ IdleHandler

\* one turn of the loop: the next batch is sent and its result merged
BatchCall(r) ==
    /\ bpc = "running"
    /\ InBatches(bn)
    /\ bpos < bn
    /\ bcalls' = Append(bcalls, Batch(bn, bpos))
    /\ banswers' = Append(banswers, r)
    /\ all_detailed_scenarios' = Extend(all_detailed_scenarios, BatchResultOf[r])
    /\ bpos' = bpos + batch_size
    /\ UNCHANGED <<bn, bpc, bret>>
    /\ UNCHANGED <<decVars, valVars, parVars, reqVars, hanVars>>

\* the range is exhausted: return all_detailed_scenarios
BatchReturn ==
    /\ bpc = "running"
    /\ InBatches(bn)
    /\ bpos >= bn
    /\ bpc' = "returned"
    /\ bret' = JArr(all_detailed_scenarios)
    /\ UNCHANGED <<bn, bpos, bcalls, banswers, all_detailed_scenarios>>
    /\ UNCHANGED <<decVars, valVars, parVars, reqVars, hanVars>>

\* five scenarios or fewer: one call with all of them, returned as it is
SingleCall(r) ==
    /\ bpc = "running"
    /\ ~InBatches(bn)
    /\ bcalls' = <<[k \in 1 .. bn |-> k]>>
    /\ banswers' = <<r>>
    /\ bpc' = "returned"
    /\ bret' = BatchResultOf[r]
    /\ UNCHANGED <<bn, bpos, all_detailed_scenarios>>
    /\ UNCHANGED <<decVars, valVars, parVars, reqVars, hanVars>>

NextBatch ==
    \/ \E r \in 0 .. Len(BatchReplies) : BatchCall(r)
    \/ BatchReturn
    \/ \E r \in 0 .. Len(BatchReplies) : SingleCall(r)

SpecBatch == InitBatch /\ [][NextBatch]_vars

\* expand in either variant: generate_test_cases_for_scenarios or
\* generate_api_test_cases_for_scenarios
InitExpand == InitParallel \/ InitBatch

NextExpand == NextParallel \/ NextBatch

SpecExpand == InitExpand /\ [][NextExpand]_vars

----------------------------------------------------------------------------
(* Uploaded API documents: detect_api_document_type and the two parsers *)

\* name in x, for a str (a substring test, here on whole words), a list
\* or a dict; None and numbers raise TypeError and are handled before
In(x, name) ==
    CASE x.t = "obj" -> Has(x, name)
      [] x.t = "arr" -> \E i \in 1 .. Len(x.v) : x.v[i] = Text(name)
      [] x.t = "str" -> \E i \in 1 .. Len(x.v) : x.v[i] = name
      [] OTHER -> FALSE

NotAContainer(x) == x.t \in {"num", "null"}

\* detect_api_document_type: the type it returns or the exception it
\* raises
detect_api_document_type(api_data) ==
    IF NotAContainer(api_data) THEN Raise("TypeError")
    ELSE IF In(api_data, "info") /\ ~IsObj(api_data)
    THEN Raise("AttributeError")
    ELSE IF In(api_data, "info") /\ NotAContainer(Get(api_data, "info"))
    THEN Raise("TypeError")
    ELSE IF /\ In(api_data, "info")
            /\ In(Get(api_data, "info"), "name")
            /\ In(api_data, "item")
    THEN Returns("postman")
    ELSE IF In(api_data, "swagger") \/ In(api_data, "openapi")
    THEN Returns("swagger")
    ELSE IF In(api_data, "item")
    THEN IF ~IsObj(api_data) THEN Raise("TypeError")
         ELSE IF IsArr(Get(api_data, "item")) THEN Returns("postman")
         ELSE Returns("unknown")
    ELSE Returns("unknown")

\* the verbs parse_swagger_spec keeps
HttpVerbs == {"GET", "POST", "PUT", "DELETE", "PATCH", "HEAD", "OPTIONS"}

\* str.upper on the words documents use as method names
UpperWord(w) ==
    CASE w \in {"get", "Get", "GET"} -> "GET"
      [] w \in {"post", "POST"} -> "POST"
      [] w = "parameters" -> "PARAMETERS"
      [] w = "fetch" -> "FETCH"
      [] OTHER -> w

Upper(text) == [i \in 1 .. Len(text) |-> UpperWord(text[i])]

Endpoint(path, method) == [path |-> path, method |-> method]

RECURSIVE SetToSeq(_)
\* the elements of a set, one after the other
SetToSeq(S) ==
    IF S = {} THEN <<>>
    ELSE LET x == CHOOSE y \in S : TRUE
         IN  <<x>> \o SetToSeq(S \ {x})

\* x.get(...) is called on the value under key k of d when it is there
GetRaises(d, k) == Has(d, k) /\ ~IsObj(Get(d, k))

\* the operations of one path that parse_swagger_spec keeps
KeptMethods(methods) ==
    {method \in DOMAIN methods.v : Upper(method) \in {<<v>> : v \in HttpVerbs}}

\* parse_swagger_spec: its endpoints (path and method), or the exception
\* a value of the wrong type raises
parse_swagger_spec(swagger_data) ==
    IF ~IsObj(swagger_data) \/ GetRaises(swagger_data, "info")
    THEN Raise("AttributeError")
    ELSE IF ~Has(swagger_data, "paths") THEN Returns(<<>>)
    ELSE LET paths == Get(swagger_data, "paths")
         IN  IF ~IsObj(paths) THEN Raise("AttributeError")
             ELSE IF \E path \in DOMAIN paths.v : ~IsObj(paths.v[path])
             THEN Raise("AttributeError")
             ELSE IF \E path \in DOMAIN paths.v :
                     \E method \in KeptMethods(paths.v[path]) :
                        ~IsObj(paths.v[path].v[method])
             THEN Raise("AttributeError")
             ELSE Returns(SetToSeq(
                    {Endpoint(JStr(path), JStr(Upper(method))) :
                        <<path, method>> \in
                            {pm \in (DOMAIN paths.v) \X
                                    UNION {DOMAIN paths.v[q].v :
                                              q \in DOMAIN paths.v} :
                                pm[2] \in KeptMethods(paths.v[pm[1]])}}))

\* the words of the model's URLs that start with "http"
HttpWords == {"http", "https", "httpbin"}

\* path.startswith("http")
StartsWithHttp(path) == path # <<>> /\ path[1] \in HttpWords

Drop(text, n) == SubSeq(text, n + 1, Len(text))

\* text up to the first of the characters of `stops`
UpTo(text, stops) ==
    LET at == {i \in 1 .. Len(text) : text[i] \in stops}
    IN  IF at = {} THEN text ELSE SubSeq(text, 1, MinOf(at) - 1)

\* urlparse(url).path for a url that starts with "http": the scheme up
\* to the ":" is cut, then "//" and the host, then the query and the
\* fragment
urlparse_path(url) ==
    LET afterScheme == IF Len(url) >= 2 /\ url[2] = ":"
                       THEN Drop(url, 2) ELSE url
        afterHost ==
            IF Len(afterScheme) >= 2 /\ afterScheme[1] = "/"
                                      /\ afterScheme[2] = "/"
            THEN Drop(afterScheme,
                      2 + Len(UpTo(Drop(afterScheme, 2), {"/", "?", "#"})))
            ELSE afterScheme
    IN  UpTo(afterHost, {"?", "#"})

RECURSIVE Join(_)
\* "/".join(parts)
Join(parts) ==
    IF parts = <<>> THEN <<>>
    ELSE IF Len(parts) = 1 THEN parts[1].v
    ELSE parts[1].v \o <<"/">> \o Join(Tail(parts))

\* str(x) for None and for a str
PyStr(x) == IF x.t = "null" THEN <<"None">> ELSE x.v

\* d.get(k, default)
GetOr(d, k, default) == IF Has(d, k) THEN Get(d, k) ELSE default

\* the path of a request before the clean-up, from its url
RawPath(url) ==
    IF url.t = "str" THEN Returns(url.v)
    ELSE IF IsObj(url)
    THEN LET host == GetOr(url, "host", EmptyList)
             path_parts == GetOr(url, "path", EmptyList)
         IN  IF IsArr(host) /\ IsArr(path_parts)
             THEN IF \E i \in 1 .. Len(path_parts.v) :
                        path_parts.v[i].t # "str"
                  THEN Raise("TypeError")
                  ELSE Returns(<<"/">> \o Join(path_parts.v))
             ELSE Returns(PyStr(GetOr(url, "raw", EmptyStr)))
    ELSE Returns(PyStr(url))

\* "Clean up the path"
CleanPath(path) == IF StartsWithHttp(path) THEN urlparse_path(path) ELSE path

\* the endpoint extract_requests appends for one request
RequestEndpoint(request) ==
    LET raw == RawPath(GetOr(request, "url", EmptyObj))
    IN  IF raw.exc # "none" THEN raw
        ELSE Returns(<<Endpoint(JStr(CleanPath(raw.val)),
                                GetOr(request, "method", Text("GET")))>>)

RECURSIVE extract_requests_every_folder(_)
\* a wrong variant: `if "item" in item` in the place of `elif`, so that an
\* item with `request` and `item` is a request and a folder
extract_requests_every_folder(items) ==
    IF items = <<>> THEN Returns(<<>>)
    ELSE LET item == Head(items)
             rest == extract_requests_every_folder(Tail(items))
             request ==
                IF NotAContainer(item) THEN Raise("TypeError")
                ELSE IF In(item, "request")
                THEN IF ~IsObj(item) THEN Raise("TypeError")
                     ELSE IF ~IsObj(Get(item, "request"))
                     THEN Raise("AttributeError")
                     ELSE RequestEndpoint(Get(item, "request"))
                ELSE Returns(<<>>)
             folder ==
                IF NotAContainer(item) THEN Raise("TypeError")
                ELSE IF In(item, "item")
                THEN IF ~IsObj(item) THEN Raise("AttributeError")
                     ELSE IF ~Iterate(Get(item, "item")).ok
                     THEN Raise("TypeError")
                     ELSE extract_requests_every_folder(
                              Iterate(Get(item, "item")).items)
                ELSE Returns(<<>>)
         IN  IF request.exc # "none" THEN request
             ELSE IF folder.exc # "none" THEN folder
             ELSE IF rest.exc # "none" THEN rest
             ELSE Returns(request.val \o folder.val \o rest.val)

RECURSIVE extract_requests(_)
\* extract_requests over a list of items: the endpoints it appends, or the
\* exception it raises
extract_requests(items) ==
    IF items = <<>> THEN Returns(<<>>)
    ELSE LET item == Head(items)
             rest == extract_requests(Tail(items))
             here ==
                IF NotAContainer(item) THEN Raise("TypeError")
                ELSE IF In(item, "request")
                THEN IF ~IsObj(item) THEN Raise("TypeError")
                     ELSE IF ~IsObj(Get(item, "request"))
                     THEN Raise("AttributeError")
                     ELSE RequestEndpoint(Get(item, "request"))
                ELSE IF In(item, "item")
                THEN IF ~IsObj(item) THEN Raise("AttributeError")
                     ELSE IF ~Iterate(Get(item, "item")).ok
                     THEN Raise("TypeError")
                     ELSE extract_requests(Iterate(Get(item, "item")).items)
                ELSE Returns(<<>>)
         IN  IF here.exc # "none" THEN here
             ELSE IF rest.exc # "none" THEN rest
             ELSE Returns(here.val \o rest.val)

\* parse_postman_collection: its endpoints, or the exception raised
parse_postman_collection(postman_data) ==
    IF ~IsObj(postman_data) \/ GetRaises(postman_data, "info")
    THEN Raise("AttributeError")
    ELSE IF ~Iterate(GetOr(postman_data, "item", EmptyList)).ok
    THEN Raise("TypeError")
    ELSE extract_requests(Iterate(GetOr(postman_data, "item", EmptyList)).items)

(* The documents a client may upload *)

\* o with the value of opt, a sequence of no or one value, under key k
PutOpt(o, k, opt) == IF opt = <<>> THEN o ELSE Put(o, Key(k), opt[1])

NoFields == [k \in {} |-> JNull]

\* https://api.example.com/v1/users and other url strings
UrlStrings ==
    { <<"https", ":", "/", "/", "api.example.com", "/", "v1", "/", "users">>,
      <<"http", ":", "/", "/", "h", "/", "a", "?", "x", "#", "f">>,
      <<"https", ":", "/", "/", "api.example.com">>,
      <<"httpbin", "/", "get">>,
      <<"api", "/", "users">>,
      <<"/", "users">>,
      <<"{", "{", "base_url", "}", "}", "/", "users">>,
      <<>> }

Urls ==
    {<<JStr(u)>> : u \in UrlStrings}
    \cup { <<>>, <<JNull>>, <<EmptyObj>>,
           <<Obj2("host", JArr(<<Text("h")>>),
                  "path", JArr(<<Text("v1"), Text("users")>>))>>,
           <<Obj2("host", Text("h"), "raw", JStr(<<"api", "/", "users">>))>>,
           <<Obj1("path", JArr(<<JNum(1)>>))>> }

Methods ==
    {<<>>, <<Text("GET")>>, <<Text("get")>>, <<Text("fetch")>>, <<JNull>>}

Requests ==
    {JObj(PutOpt(PutOpt(NoFields, "method", m), "url", u)) :
        m \in Methods, u \in Urls}

PlainRequest == Obj2("method", Text("POST"), "url", JStr(<<"/", "users">>))

GetRequest == Obj2("method", Text("GET"), "url", JStr(<<"/", "a">>))
PutRequest == Obj2("method", Text("PUT"), "url", JStr(<<"/", "b">>))

\* a folder in a folder, and an item that has `request` and `item`
NestedItems ==
    { <<Obj2("name", Text("w"),
             "item", JArr(<<Obj1("item", JArr(<<Obj1("request", GetRequest)>>)),
                            Obj1("request", PlainRequest)>>)),
        Obj1("request", PutRequest)>>,
      <<JObj(Key("name") :> Text("w")
             @@ Key("request") :> PlainRequest
             @@ Key("item") :> JArr(<<Obj1("request", GetRequest)>>)),
        Obj1("request", PutRequest)>>,
      <<Obj1("item", JArr(<<Obj2("request", GetRequest,
                                 "item", JArr(<<Obj1("request", PutRequest),
                                                Text("x")>>))>>))>> }

\* what a collection may hold under `item`
ItemLists ==
    {<<Obj1("request", r)>> : r \in Requests}
    \cup NestedItems
    \cup { <<>>,
           <<Obj2("name", Text("w"),
                  "item", JArr(<<Obj1("request", PlainRequest)>>)),
             Obj1("request", PlainRequest)>>,
           <<Obj1("name", Text("w"))>>,
           <<Text("x")>>,
           <<Obj1("request", Text("x"))>> }

Items == {<<>>, <<Text("x")>>} \cup {<<JArr(l)>> : l \in ItemLists}

Operations ==
    { Obj1("get", EmptyObj), Obj1("GET", EmptyObj),
      Obj2("Get", EmptyObj, "parameters", EmptyList),
      Obj1("fetch", EmptyObj),
      Obj2("post", EmptyObj, "get", EmptyObj),
      Obj1("get", JNull) }

PathNames == {<<"/", "users">>, <<"users">>, <<>>}

\* what a specification may hold under `paths`
Paths ==
    {<<JObj(p :> o)>> : p \in PathNames, o \in Operations}
    \cup { <<>>, <<EmptyObj>>, <<Text("x")>>,
           <<JObj(<<"/", "users">> :> Obj1("get", EmptyObj)
                  @@ <<"users">> :> Obj1("post", EmptyObj))>> }

Infos ==
    { <<>>, <<Obj1("name", Text("w"))>>, <<Obj1("title", Text("w"))>>,
      <<JNull>>, <<Text("name")>> }

Versions == {<<>>, <<Text("w")>>}

Document(info, swagger, openapi, item, paths) ==
    JObj(PutOpt(PutOpt(PutOpt(PutOpt(PutOpt(NoFields,
        "info", info), "swagger", swagger), "openapi", openapi),
        "item", item), "paths", paths))

\* the uploaded files: JSON documents, and a file that is not JSON
Uploads ==
    {[ok |-> TRUE, v |-> Document(i, s, o, it, <<>>)] :
        i \in Infos, s \in Versions, o \in Versions, it \in Items}
    \cup {[ok |-> TRUE, v |-> Document(i, s, o, it, p)] :
            i \in Infos, s \in Versions, o \in Versions,
            it \in {<<>>, <<JArr(<<>>)>>}, p \in Paths}
    \cup { [ok |-> TRUE, v |-> EmptyList], [ok |-> TRUE, v |-> JNull],
           [ok |-> TRUE, v |-> JArr(<<Text("swagger")>>)],
           [ok |-> FALSE, v |-> JNull] }

(* One request: /analyze_api or generate_api_tests_from_file *)

Handlers == {"analyze_api", "generate_api_tests_from_file"}

UnknownTypeError == ErrorValue("Unable to detect API document type")

\* what ends the request after an exception, and after a return of an
\* error value
Failed(handler, message) ==
    IF handler = "analyze_api"
    THEN [status |-> "500", body |-> ErrorValue("Server error")]
    ELSE [status |-> "returned", body |-> ErrorValue(message)]

Rejected(handler, body) ==
    [status |-> IF handler = "analyze_api" THEN "400" ELSE "returned",
     body |-> body]

\* a wrong variant: no document type is taken as unknown
NeverUnknown(type) == FALSE

\* `if document_type == "unknown"`
IsUnknown(type) == type = "unknown"

InitRequest ==
    /\ rdoc \in Uploads
    /\ rhandler \in Handlers
    /\ rpc = "loaded"
    /\ document_type = "none"
    /\ parsed_data = <<>>
    /\ model_calls = 0
    /\ rresp = [status |-> "none", body |-> JNull]
    /\ IdleDecode /\ IdleValidate /\ IdleParallel /\ IdleBatch /\ IdleHandler

\* json.load raises on the file
LoadFails ==
    /\ rpc = "loaded"
    /\ ~rdoc.ok
    /\ rpc' = "done"
    /\ rresp' = Failed(rhandler, "Invalid JSON file")
    /\ UNCHANGED <<rdoc, rhandler, document_type, parsed_data, model_calls>>
    /\ UNCHANGED <<decVars, valVars, parVars, batVars, hanVars>>

\* document_type = detect_api_document_type(api_data)
Detect ==
    /\ rpc = "loaded"
    /\ rdoc.ok
    /\ LET detected == detect_api_document_type(rdoc.v)
       IN  IF detected.exc # "none"
           THEN /\ rpc' = "done"
                /\ rresp' = Failed(rhandler, "Error processing API document")
                /\ UNCHANGED document_type
           ELSE /\ rpc' = "detected"
                /\ document_type' = detected.val
                /\ UNCHANGED rresp
    /\ UNCHANGED <<rdoc, rhandler, parsed_data, model_calls>>
    /\ UNCHANGED <<decVars, valVars, parVars, batVars, hanVars>>

\* the unknown type ends the request
RejectUnknown ==
    /\ rpc = "detected"
    /\ IsUnknown(document_type)
    /\ rpc' = "done"
    /\ rresp' = Rejected(rhandler, UnknownTypeError)
    /\ UNCHANGED <<rdoc, rhandler, document_type, parsed_data, model_calls>>
    /\ UNCHANGED <<decVars, valVars, parVars, batVars, hanVars>>

\* "Parse the document based on type"
Parse ==
    /\ rpc = "detected"
    /\ ~IsUnknown(document_type)
    /\ IF document_type \notin {"swagger", "postman"}
       THEN /\ rpc' = "done"
            /\ rresp' = Rejected(rhandler,
                                 ErrorValue("Unsupported document type"))
            /\ UNCHANGED parsed_data
       ELSE LET parsed == IF document_type = "swagger"
                          THEN parse_swagger_spec(rdoc.v)
                          ELSE parse_postman_collection(rdoc.v)
            IN  IF parsed.exc # "none"
                THEN /\ rpc' = "done"
                     /\ rresp' = Failed(rhandler,
                                        "Error processing API document")
                     /\ UNCHANGED parsed_data
                ELSE /\ rpc' = "parsed"
                     /\ parsed_data' = parsed.val
                     /\ UNCHANGED rresp
    /\ UNCHANGED <<rdoc, rhandler, document_type, model_calls>>
    /\ UNCHANGED <<decVars, valVars, parVars, batVars, hanVars>>

\* generate_api_scenarios or generate_api_test_cases: one completion call;
\* both return a list whatever the provider does
Generate ==
    /\ rpc = "parsed"
    /\ rpc' = "generated"
    /\ model_calls' = model_calls + 1
    /\ UNCHANGED <<rdoc, rhandler, document_type, parsed_data, rresp>>
    /\ UNCHANGED <<decVars, valVars, parVars, batVars, hanVars>>

\* the result is returned
Respond ==
    /\ rpc = "generated"
    /\ rpc' = "done"
    /\ rresp' = [status |-> IF rhandler = "analyze_api"
                            THEN "200" ELSE "returned",
                 body |-> Obj1("document_type", Text(document_type))]
    /\ UNCHANGED <<rdoc, rhandler, document_type, parsed_data, model_calls>>
    /\ UNCHANGED <<decVars, valVars, parVars, batVars, hanVars>>

NextRequest ==
    LoadFails \/ Detect \/ RejectUnknown \/ Parse \/ Generate \/ Respond

SpecRequest == InitRequest /\ [][NextRequest]_vars

----------------------------------------------------------------------------
(* The generation endpoints: one request, from the form to the response *)

\* what the model may reply to the completion call of /analyze and
\* /generate
HandlerReplies ==
    << ScenariosText(ScenarioText("a", "t1")),
       <<"null">>,
       <<"7">>,
       <<"{">> \o Q("scenarios") \o <<":", "7", "}">>,
       <<"{">> \o Q("scenarios") \o <<":">> \o Q("x") \o <<"}">>,
       <<"{">> \o Q("scenarios") \o <<":", "null", "}">>,
       ScenariosText(<<>>),
       <<"w", " ", "w">>,
       <<"[", "]">>,
       Q("x"),
       Q("scenarios"),
       <<>> >>

\* the completion has no content: message.content is None
NoContent(replies) == Len(replies) + 1

\* the provider's outcomes: it raises (0), it replies, it gives no content
OutcomesOf(endpoint) ==
    CASE endpoint \in {"analyze", "generate"} ->
            0 .. NoContent(HandlerReplies)
      [] endpoint = "generate_test_cases" -> 0 .. Len(Replies)
      [] endpoint = "generate_api_test_cases" -> 0 .. Len(BatchReplies)

\* a wrong variant: no except branch
Unguarded(body, error) == body

\* try: body, except Exception: return error
Guarded(body, error) == IF body.exc # "none" THEN Returns(error) ELSE body

\* generate_test_scenarios_and_cases for one outcome of the provider
generate_test_scenarios_and_cases(o) ==
    Guarded(IF o = ProviderError THEN Raise("APIError")
            ELSE IF o = NoContent(HandlerReplies) THEN Raise("AttributeError")
            ELSE Returns(decode_scenarios(HandlerReplies[o]).value),
            Obj2("error", Text("Error generating test cases"),
                 "scenarios", EmptyList))

\* generate_test_cases_for_scenarios on one scenario, for one outcome
generate_test_cases_for_scenarios(o) ==
    Guarded(IF FutureOf[o].exc # "none" THEN FutureOf[o]
            ELSE Returns(SortAndReturn(IF KeepResult(FutureOf[o].val)
                                       THEN <<FutureOf[o].val>> ELSE <<>>)),
            ErrorValue(FutureOf[o].exc))

\* generate_api_test_cases_for_scenarios on five scenarios or fewer
generate_api_test_cases_for_scenarios(o) ==
    Guarded(Returns(BatchResultOf[o]),
            JArr(<<ErrorValue("Error generating detailed test cases")>>))

\* the core function an endpoint calls
Core(endpoint, o) ==
    CASE endpoint \in {"analyze", "generate"} ->
            generate_test_scenarios_and_cases(o)
      [] endpoint = "generate_test_cases" ->
            generate_test_cases_for_scenarios(o)
      [] endpoint = "generate_api_test_cases" ->
            generate_api_test_cases_for_scenarios(o)

\* "Force test_cases to be empty" on the entries of result['scenarios']
ClearTestCases(scenarios) ==
    IF IsArr(scenarios)
    THEN JArr([i \in 1 .. Len(scenarios.v) |->
                IF IsObj(scenarios.v[i])
                THEN JObj(Put(scenarios.v[i].v, Key("test_cases"), EmptyList))
                ELSE scenarios.v[i]])
    ELSE scenarios

Finished(body, unlinked) ==
    [exc |-> "none", body |-> body, unlinked |-> unlinked]
Aborted(exception, unlinked) ==
    [exc |-> exception, body |-> JNull, unlinked |-> unlinked]

\* /analyze from the result of the core function to `return
\* jsonify(result)`: the `in` tests and len() raise TypeError on a result
\* or a `scenarios` value of the wrong type, before the clean-up
analyze(result) ==
    IF NotAContainer(result) THEN Aborted("TypeError", FALSE)
    ELSE IF In(result, "error") /\ ~IsObj(result)
    THEN Aborted("TypeError", FALSE)
    ELSE IF ~In(result, "scenarios") THEN Finished(result, TRUE)
    ELSE IF ~IsObj(result) THEN Aborted("TypeError", FALSE)
    ELSE IF NotAContainer(Get(result, "scenarios"))
    THEN Aborted("TypeError", FALSE)
    ELSE Finished(JObj(Put(result.v, Key("scenarios"),
                           ClearTestCases(Get(result, "scenarios")))), TRUE)

\* result["generated_at"] = ...; result["input_type"] = ...
WithMetadata(result, input_type) ==
    JObj(Put(Put(result.v, Key("generated_at"), Text("now")),
             Key("input_type"), Text(input_type)))

\* /generate: the clean-up, then the metadata
generate(result, input) ==
    IF ~IsObj(result) THEN Aborted("TypeError", TRUE)
    ELSE Finished(WithMetadata(result, input), TRUE)

\* /generate_test_cases after the core function
generate_test_cases(result) ==
    IF ~IsObj(result) THEN Aborted("TypeError", FALSE)
    ELSE Finished(WithMetadata(result, "selected_scenarios"), FALSE)

\* /generate_api_test_cases after the core function
generate_api_test_cases_endpoint(detailed_scenarios) ==
    Finished(JObj(Key("document_type") :> Text("swagger")
                  @@ Key("scenarios") :> detailed_scenarios
                  @@ Key("generated_at") :> Text("now")), FALSE)

\* the handler from the core function's result on
Handle(endpoint, result, input) ==
    CASE endpoint = "analyze" -> analyze(result)
      [] endpoint = "generate" -> generate(result, input)
      [] endpoint = "generate_test_cases" -> generate_test_cases(result)
      [] endpoint = "generate_api_test_cases" ->
            generate_api_test_cases_endpoint(result)

\* the except branch of a handler
ServerError(endpoint, exception) ==
    [status |-> "500",
     body |-> IF endpoint = "generate"
              THEN Obj2("error", Text("Server error"), "scenarios", EmptyList)
              ELSE ErrorValue(exception)]

\* what a client may send, and what of it a handler turns down with 400
InputsOf(endpoint) ==
    CASE endpoint \in {"analyze", "generate"} ->
            {"description", "image", "bad_image", "nothing"}
      [] endpoint = "generate_test_cases" ->
            {"scenarios", "not_json", "no_scenarios", "empty_scenarios"}
      [] endpoint = "generate_api_test_cases" ->
            {"scenarios", "not_json", "no_scenarios", "no_api_info",
             "empty_scenarios"}

Accepted(input) == input \in {"description", "image", "scenarios"}

Endpoints ==
    {"analyze", "generate", "generate_test_cases", "generate_api_test_cases"}

InitHandler ==
    /\ hendpoint \in Endpoints
    /\ hinput \in InputsOf(hendpoint)
    /\ hreply \in OutcomesOf(hendpoint)
    /\ hpc = "received"
    /\ hcore = [exc |-> "none", val |-> JNull]
    /\ hfile = "none"
    /\ hresp = [status |-> "none", body |-> JNull]
    /\ IdleDecode /\ IdleValidate /\ IdleParallel /\ IdleBatch /\ IdleRequest

\* the handler turns the request down
HReject ==
    /\ hpc = "received"
    /\ ~Accepted(hinput)
    /\ hpc' = "done"
    /\ hresp' = [status |-> "400", body |-> ErrorValue(hinput)]
    /\ UNCHANGED <<hendpoint, hinput, hreply, hcore, hfile>>
    /\ UNCHANGED <<decVars, valVars, parVars, batVars, reqVars>>

\* an uploaded image is saved to a temporary file, then the core function
\* runs
HCompute ==
    /\ hpc = "received"
    /\ Accepted(hinput)
    /\ hpc' = "computed"
    /\ hfile' = IF hinput = "image" THEN "exists" ELSE "none"
    /\ hcore' = Core(hendpoint, hreply)
    /\ UNCHANGED <<hendpoint, hinput, hreply, hresp>>
    /\ UNCHANGED <<decVars, valVars, parVars, batVars, reqVars>>

\* the rest of the handler, its except branch included
HRespond ==
    /\ hpc = "computed"
    /\ hpc' = "done"
    /\ IF hcore.exc # "none"
       THEN /\ hresp' = ServerError(hendpoint, hcore.exc)
            /\ UNCHANGED hfile
       ELSE LET handled == Handle(hendpoint, hcore.val, hinput)
            IN  /\ hresp' = IF handled.exc # "none"
                            THEN ServerError(hendpoint, handled.exc)
                            ELSE [status |-> "200", body |-> handled.body]
                /\ hfile' = IF hfile = "exists" /\ handled.unlinked
                            THEN "deleted" ELSE hfile
    /\ UNCHANGED <<hendpoint, hinput, hreply, hcore>>
    /\ UNCHANGED <<decVars, valVars, parVars, batVars, reqVars>>

NextHandler == HReject \/ HCompute \/ HRespond

SpecHandler == InitHandler /\ [][NextHandler]_vars

----------------------------------------------------------------------------
(* Claims about the parse steps, under SpecDecode *)

ObjectDecoders ==
    {"generate_test_cases_for_batch", "generate_test_scenarios_and_cases"}

NoneOf(p, S) == \A i \in 1 .. Len(p) : p[i] \notin S
WhitespaceOnly(p) == NoneOf(p, ProseChars \ {WS})
PlainProse == NoneOf(dpre \o dpost, {"{", "}", "[", "]", "\""})

\* the reply is whitespace, the JSON text Mids[dmid], whitespace
BareReply ==
    WhitespaceOnly(dpre) /\ WhitespaceOnly(dpost) /\ Mids[dmid].valid

\* C5: a reply that is, after trimming, a well-formed JSON object is
\* returned as exactly that object by the parse steps of
\* generate_test_cases_for_batch and generate_test_scenarios_and_cases, by
\* the direct parse and by no fallback layer.
C5_DirectIdentity ==
    dfn \in ObjectDecoders =>
        /\ (BareReply /\ IsObj(Mids[dmid].val)) =>
                dout = [layer |-> "direct", value |-> Mids[dmid].val]
        /\ (JsonLoads(Strip(Raw)).ok /\ IsObj(JsonLoads(Strip(Raw)).v)) =>
                dout = [layer |-> "direct", value |-> JsonLoads(Strip(Raw)).v]

C5_Witness ==
    /\ dfn = "generate_test_cases_for_batch"
    /\ dpre = <<" ">> /\ dpost = <<" ">>
    /\ Mids[dmid].val = Obj2("a", JArr(<<JNum(1)>>), "b", JNull)
    /\ dout.layer = "direct"

\* C6 (as claimed): whatever the prose around one valid JSON object, brace
\* and bracket characters included, decode returns the embedded object.
C6_AnyProse ==
    (dfn \in ObjectDecoders /\ Mids[dmid].valid /\ IsObj(Mids[dmid].val)) =>
        dout.value = Mids[dmid].val

\* C6 (amended): when the prose around the embedded value holds no brace,
\* bracket or double-quote character, the parse steps of
\* generate_test_cases_for_batch and generate_test_scenarios_and_cases
\* return an embedded JSON object; when it holds no bracket or double-quote
\* character, the parse step of _generate_batch_test_cases returns an
\* embedded JSON array.
C6_PlainProse ==
    /\ (/\ dfn \in ObjectDecoders
        /\ Mids[dmid].valid /\ IsObj(Mids[dmid].val)
        /\ PlainProse) =>
            dout.value = Mids[dmid].val
    /\ (/\ dfn = "_generate_batch_test_cases"
        /\ Mids[dmid].valid /\ IsArr(Mids[dmid].val)
        /\ NoneOf(dpre \o dpost, {"[", "]", "\""})) =>
            dout.value = Mids[dmid].val

C6_Witness ==
    /\ dfn = "generate_test_scenarios_and_cases"
    /\ dpre = <<"w">> /\ dpost = <<"w">>
    /\ Mids[dmid].val = Obj1("a", JStr(<<"}">>))
    /\ dout = [layer |-> "object", value |-> Mids[dmid].val]

\* the text after the fixed prefix of the error message
ErrorExcerpt == Tail(Get(dout.value, "error").v)

IsPrefixOf(e, s) == Len(e) <= Len(s) /\ \A i \in 1 .. Len(e) : e[i] = s[i]

\* C7 (as claimed): when every layer fails, the empty reply included, the
\* error value carries a non-empty excerpt, the first 500 characters of the
\* trimmed reply.
C7_NonEmptyExcerpt ==
    (dfn \in ObjectDecoders /\ dout.layer = "error") =>
        /\ Has(dout.value, "error")
        /\ ErrorExcerpt # <<>>
        /\ IsPrefixOf(ErrorExcerpt, Strip(Raw))

\* C7 (amended): when every layer fails, decode returns an error value
\* whose message is the fixed prefix followed by exactly the first 500
\* characters of the trimmed reply, all of it when shorter and never more;
\* the excerpt is empty exactly when the trimmed reply is empty.
C7_Excerpt ==
    (dfn \in ObjectDecoders /\ dout.layer = "error") =>
        /\ DOMAIN dout.value.v = {Key("error")}
        /\ Head(Get(dout.value, "error").v) = ParseErrorPrefix
        /\ IsPrefixOf(ErrorExcerpt, Strip(Raw))
        /\ Len(ErrorExcerpt) =
              (IF Len(Strip(Raw)) <= 500 THEN Len(Strip(Raw)) ELSE 500)
        /\ (ErrorExcerpt = <<>>) <=> (Strip(Raw) = <<>>)

C7_Witness ==
    /\ dfn = "generate_test_cases_for_batch"
    /\ dout.layer = "error"
    /\ Len(Strip(Raw)) > 500
    /\ Len(ErrorExcerpt) = 500

\* C8: when the whole reply is a bare JSON array, decode returns the
\* object {scenarios: that array} and never the bare array.
C8_BareArrayWrapped ==
    (dfn \in ObjectDecoders /\ BareReply /\ IsArr(Mids[dmid].val)) =>
        dout.value = Obj1("scenarios", Mids[dmid].val)

----------------------------------------------------------------------------
(* Claims about the parallel expansion, under Spec and SpecPool *)

\* what the reply to unit i decodes to
Decoded(i) == decode_batch(Replies[reply[i]]).value

\* unit i's provider call raises
CallFails(i) == reply[i] = ProviderError

\* the reply to unit i decodes to an object with a non-empty `scenarios` list
DecodesToScenarios(i) ==
    /\ ~CallFails(i)
    /\ IsObj(Decoded(i))
    /\ Has(Decoded(i), "scenarios")
    /\ IsArr(Get(Decoded(i), "scenarios"))
    /\ Get(Decoded(i), "scenarios").v # <<>>

\* ... whose first entry is a non-empty scenario object with a text `id`
\* or none
Succeeds(i) ==
    /\ DecodesToScenarios(i)
    /\ IsObj(Get(Decoded(i), "scenarios").v[1])
    /\ Truthy(Get(Decoded(i), "scenarios").v[1])
    /\ SortKey(Get(Decoded(i), "scenarios").v[1]).t = "str"

IsIn(x, xs) == \E k \in 1 .. Len(xs) : xs[k] = x

\* the call returned {scenarios: [...]} with n scenarios and no error
ReturnedScenarios(n) ==
    /\ IsObj(ret)
    /\ ~Has(ret, "error")
    /\ Has(ret, "scenarios")
    /\ IsArr(Get(ret, "scenarios"))
    /\ Len(Get(ret, "scenarios").v) = n

\* C1: for every N >= 1, when exactly one scenario's provider call raises
\* and every other unit's reply decodes to an object with a non-empty
\* `scenarios` list, the call returns {scenarios: [...]} with exactly N-1
\* scenarios and no top-level error.
C1_OneFailureKeepsRest ==
    (/\ ppc = "returned"
     /\ nscen >= 1
     /\ Cardinality({i \in Units : CallFails(i)}) = 1
     /\ \A i \in Units : CallFails(i) \/ DecodesToScenarios(i)) =>
        ReturnedScenarios(nscen - 1)

\* C2: a unit whose reply decodes to anything other than an object with a
\* non-empty `scenarios` list is a failed unit only: the call returns no
\* error, and its scenarios are those of the sibling units that succeeded.
C2_BadShapeFailsUnitOnly ==
    (/\ ppc = "returned"
     /\ \E i \in Units : ~CallFails(i) /\ ~DecodesToScenarios(i)
     /\ \A i \in Units :
            Succeeds(i) \/ (~CallFails(i) /\ ~DecodesToScenarios(i))) =>
        /\ ReturnedScenarios(Cardinality({i \in Units : Succeeds(i)}))
        /\ \A i \in Units :
              Succeeds(i) =>
                IsIn(Get(Decoded(i), "scenarios").v[1],
                     Get(ret, "scenarios").v)

\* C3: for fixed scenarios and fixed replies the call returns the same
\* scenarios in the same order under every completion order of the
\* workers: a second call that returns scenarios returns the list the
\* first call returned.
C3_SameOrder ==
    (/\ calls = 2
     /\ ppc = "returned"
     /\ Has(first, "scenarios")
     /\ Has(ret, "scenarios")) =>
        ret = first

\* C4: during one call, whatever the number of scenarios, at most 5
\* completion calls to the provider are in flight at any moment.
C4_AtMostFive == Cardinality(Running) <= 5

C4_Witness ==
    /\ nscen > max_workers
    /\ Cardinality(Running) = max_workers
    /\ \E i \in Units : ust[i] = "queued"

----------------------------------------------------------------------------
(* Claims about the validation loops, under SpecValidate *)

TitlesOf(items) == [i \in 1 .. Len(items) |-> Get(items[i], "title")]
HasTitle(entry) == IsObj(entry) /\ Has(entry, "title")

\* C9: validate drops the top-level entries that are not objects or lack
\* `title` and no others: the scenarios of the output are, in input order,
\* the entries of the input that are objects with a `title`.
C9_DropsOnlyUntitled ==
    (vpass = 1 /\ vin.ok /\ IsArr(vin.v)) =>
        TitlesOf(vout) = TitlesOf(SelectSeq(vin.v.v, HasTitle))

\* C10: validate is idempotent: a second pass of the loop over the list
\* the first pass returned returns that list again, scenario for scenario
\* and field for field.
C10_Idempotent == vpass = 2 => vout = vprev

C10_Witness ==
    /\ vpass = 2
    /\ vfn = "generate_website_test_scenarios"
    /\ vin.ok /\ IsArr(vin.v) /\ Len(vin.v.v) = 2
    /\ Has(vin.v.v[2], "title") /\ Has(vin.v.v[2], "test_cases")
    /\ Get(vin.v.v[2], "test_cases") = JArr(<<CaseNoTitle, CaseBare>>)
    /\ Len(vout) >= 1
    /\ Get(vout[Len(vout)], "test_cases").v
          = <<JObj(website_defaults(CaseBare.v))>>

\* the keys the specification gives a default for
CaseKeys ==
    {"description", "priority", "category", "preconditions", "steps",
     "test_data", "expected_result", "validation_criteria"}

\* the test cases of the scenarios of a returned list
CasesIn(scenarios) ==
    UNION {{Get(scenarios[i], "test_cases").v[j] :
                j \in 1 .. Len(Get(scenarios[i], "test_cases").v)} :
            i \in 1 .. Len(scenarios)}

\* the reply was parsed and the validation loop ran over it
Validated == vpass >= 1 /\ vin.ok /\ Iterate(vin.v).ok

\* C11: every test case of a validated result, of the API validator and
\* of the website validator alike, has every one of the keys description,
\* priority, category, preconditions, steps, test_data, expected_result
\* and validation_criteria (the claim adds: with the model's value or the
\* default; presence is the weaker statement).
C11_EveryKeyPresent ==
    Validated =>
        \A tc \in CasesIn(vout) : \A k \in CaseKeys : Has(tc, k)

----------------------------------------------------------------------------
(* Claims about batch expansion, under SpecBatch *)

RECURSIVE Flatten(_)
Flatten(batches) ==
    IF batches = <<>> THEN <<>> ELSE Head(batches) \o Flatten(Tail(batches))

\* C12: batch expansion of N > 5 scenarios issues exactly ceil(N/3)
\* completion calls, one per consecutive slice of at most 3 scenarios; the
\* slices cover every input scenario exactly once and in input order,
\* whether or not some of the calls fail.
C12_CeilCalls ==
    bn > 5 =>
        /\ \A k \in 1 .. Len(bcalls) : Len(bcalls[k]) \in 1 .. 3
        /\ Flatten(bcalls) = [k \in 1 .. Len(Flatten(bcalls)) |-> k]
        /\ Len(bcalls) = Len(banswers)
        /\ bpc = "returned" =>
              /\ Len(bcalls) = (bn + 2) \div 3
              /\ Flatten(bcalls) = [k \in 1 .. bn |-> k]

C12_Witness ==
    /\ bpc = "returned"
    /\ bn = 7
    /\ bcalls = << <<1, 2, 3>>, <<4, 5, 6>>, <<7>> >>
    /\ banswers[2] = ProviderError
    /\ BatchReplies[banswers[3]] = <<"w", " ", "w">>

\* the `id` keys of the entries of a list that have one
IdsOf(items) ==
    LET withId == SelectSeq(items, LAMBDA x : IsObj(x) /\ Has(x, "id"))
    IN  [k \in 1 .. Len(withId) |-> Get(withId[k], "id").v]

\* no key is followed by a smaller one
SortedText(keys) ==
    \A k \in 1 .. (Len(keys) - 1) : ~StrLess(keys[k + 1], keys[k])

\* C13: the merged list batch expansion returns is sorted by scenario
\* `id` in lexical order, whatever order the replies list them in.
C13_SortedById ==
    (bpc = "returned" /\ bn > 5) => SortedText(IdsOf(bret.v))

\* C14: batch expansion of N scenarios returns at most N scenarios,
\* whatever each batch's reply contains.
C14_AtMostN ==
    (bpc = "returned" /\ bn > 5) => Len(bret.v) <= bn

----------------------------------------------------------------------------
(* Claims about uploaded documents, under SpecRequest *)

\* the document has `info.name`
HasInfoName(d) == Has(d, "info") /\ Has(Get(d, "info"), "name")

\* the document has a `swagger` or an `openapi` key
HasVersionKey(d) == Has(d, "swagger") \/ Has(d, "openapi")

\* detect has run on an uploaded JSON object
Detected == rpc # "loaded" /\ rdoc.ok /\ IsObj(rdoc.v)

\* C15: detect classifies as swagger every document that has `info.name`,
\* an `item` key and also a `swagger` or `openapi` key.
C15_SwaggerWins ==
    (/\ Detected
     /\ HasInfoName(rdoc.v)
     /\ Has(rdoc.v, "item")
     /\ HasVersionKey(rdoc.v)) =>
        document_type = "swagger"

\* C16: for every document that does not have both `info.name` and `item`,
\* detect returns swagger if a `swagger` or `openapi` key is present,
\* otherwise postman if `item` is present and is a list, otherwise unknown.
C16_OtherDocuments ==
    (Detected /\ ~(HasInfoName(rdoc.v) /\ Has(rdoc.v, "item"))) =>
        document_type =
            IF HasVersionKey(rdoc.v) THEN "swagger"
            ELSE IF Has(rdoc.v, "item") /\ IsArr(Get(rdoc.v, "item"))
            THEN "postman"
            ELSE "unknown"

\* C17: in every parsed document every endpoint's `method` is one of GET,
\* POST, PUT, DELETE, PATCH, HEAD, OPTIONS, whatever the source document
\* gives as method.
C17_CanonicalMethod ==
    \A i \in 1 .. Len(parsed_data) :
        /\ parsed_data[i].method.t = "str"
        /\ parsed_data[i].method.v \in {<<verb>> : verb \in HttpVerbs}

\* C18: in every parsed document every endpoint's `path` is a string that
\* starts with `/`.
C18_PathStartsWithSlash ==
    \A i \in 1 .. Len(parsed_data) :
        /\ parsed_data[i].path.t = "str"
        /\ parsed_data[i].path.v # <<>>
        /\ parsed_data[i].path.v[1] = "/"

\* C19: a request whose document detect classifies as unknown makes no
\* completion call at any point: its only next step is the one that ends
\* it, and it ends with the unrecognized-document error.
C19_UnknownNoModelCall ==
    document_type = "unknown" =>
        /\ model_calls = 0
        /\ rpc \in {"detected", "done"}
        /\ rpc = "detected" => ENABLED RejectUnknown
        /\ rpc = "done" =>
              /\ rresp.body = UnknownTypeError
              /\ rresp.status \in {"400", "returned"}

C19_Witness ==
    /\ document_type = "unknown"
    /\ rpc = "done"
    /\ rhandler = "analyze_api"
    /\ Has(rdoc.v, "item")
    /\ rresp = [status |-> "400", body |-> UnknownTypeError]
    /\ model_calls = 0

----------------------------------------------------------------------------
(* More claims about the validation loops, under SpecValidate *)

\* C20: generate_api_test_cases and generate_website_test_scenarios never
\* return an empty scenario list: when generation yields no scenario the
\* hard-coded fallback scenario is returned instead.
C20_NeverEmpty == vpass = 1 => vout # <<>>

----------------------------------------------------------------------------
(* Claims about the generation endpoints, under SpecHandler *)

\* C21: whatever the provider does (it raises, it gives no content, it
\* replies any JSON value or any other text), the core function returns a
\* value and the handler answers with a status: no exception leaves the
\* core function or the request.
C21_NoExceptionEscapes ==
    /\ hpc # "received" => hcore.exc = "none"
    /\ hpc = "done" => hresp.status \in {"200", "400", "500"}

C21_Witness ==
    /\ hpc = "done"
    /\ hendpoint = "analyze"
    /\ hreply \in {ProviderError, NoContent(HandlerReplies)}
    /\ IsObj(hcore.val) /\ Has(hcore.val, "error")
    /\ hresp.status = "200"

\* a body that reports a failure: `error` at top level, or as the only
\* content of its scenarios
ReportsFailure(body) ==
    \/ IsObj(body) /\ Has(body, "error")
    \/ /\ IsObj(body) /\ Has(body, "scenarios")
       /\ IsArr(Get(body, "scenarios"))
       /\ Len(Get(body, "scenarios").v) = 1
       /\ IsObj(Get(body, "scenarios").v[1])
       /\ Has(Get(body, "scenarios").v[1], "error")

\* C23: a response that reports a failure has status 400 or 500, and a
\* response with status 200 carries a scenarios list and no error.
C23_FailureHasErrorStatus ==
    hpc = "done" =>
        /\ ReportsFailure(hresp.body) => hresp.status \in {"400", "500"}
        /\ hresp.status = "200" =>
              /\ IsObj(hresp.body) /\ Has(hresp.body, "scenarios")
              /\ IsArr(Get(hresp.body, "scenarios"))
              /\ ~ReportsFailure(hresp.body)

\* C30: the temporary image file that /analyze saved is gone when the
\* handler has answered, on every path.
C30_TempFileDeleted ==
    hpc = "done" /\ hendpoint = "analyze" => hfile # "exists"

----------------------------------------------------------------------------
(* Claims about the completion calls of expand *)

\* the completion calls the parallel variant made in this call
CallsSent == Cardinality({i \in Units : sent[i] >= 1})

\* C22 as stated: with 1 to 5 scenarios, one completion call covers them
\* all, in the batch variant and in the parallel variant.
C22_OneCallBothVariants ==
    /\ (bpc = "returned" /\ bn \in 1 .. 5) => Len(bcalls) = 1
    /\ (ppc = "returned" /\ nscen \in 1 .. 5) => CallsSent = 1

\* C22 amended: with 1 to 5 scenarios the batch variant makes one
\* completion call with all the scenarios in input order; the parallel
\* variant makes one completion call per scenario.
C22_OneCallInBatchVariant ==
    /\ (bpc = "returned" /\ bn \in 1 .. 5) =>
            bcalls = <<[k \in 1 .. bn |-> k]>>
    /\ (ppc = "returned" /\ nscen \in 1 .. 5) =>
            /\ CallsSent = nscen
            /\ \A i \in Units : sent[i] = 1

C22_Witness ==
    /\ bpc = "returned" /\ bn = 5 /\ Len(bcalls) = 1
    /\ ppc = "returned" /\ nscen = 0

\* C29: parallel expansion of N scenarios makes exactly N completion calls,
\* one per scenario: no unit is sent twice, and when the function returns
\* none was skipped, also a unit whose call or decoding failed.
C29_OneCallPerScenario ==
    /\ \A i \in Units : sent[i] <= 1
    /\ \A i \in Units : sent[i] = 1 <=> ust[i] # "queued"
    /\ ppc = "returned" =>
          /\ CallsSent = nscen
          /\ \A i \in Units : sent[i] = 1

C29_Witness ==
    /\ ppc = "returned"
    /\ nscen = 2
    /\ reply[1] = ProviderError
    /\ FutureOf[reply[2]].exc # "none"
    /\ sent = <<1, 1>>

\* C25: when generate_test_cases_for_scenarios has returned, with a result
\* or an error value, no unit is still queued or running.
C25_AllUnitsJoined ==
    ppc = "returned" =>
        \A i \in Units : ust[i] \in {"finished", "collected"}

C25_Witness ==
    /\ ppc = "returned"
    /\ raised # "none"
    /\ \E i \in Units : ust[i] = "finished"

----------------------------------------------------------------------------
(* Claims about the order of the parse steps, under SpecDecode *)

\* the three parse attempts on the trimmed reply, each on its own
DirectParse == JsonLoads(Strip(Raw))
ObjectSpanParse ==
    LET json_match == Search(Strip(Raw), "{", "}")
    IN  [ok |-> json_match.found /\ JsonLoads(json_match.group).ok,
         v |-> JsonLoads(json_match.group).v]
ArraySpanParse ==
    LET array_match == Search(Strip(Raw), "[", "]")
    IN  [ok |-> /\ Strip(Raw) # <<>>
                /\ array_match.found
                /\ JsonLoads(array_match.group).ok,
         v |-> JsonLoads(array_match.group).v]

\* C24: generate_test_cases_for_batch returns the value of the first of
\* direct parse, {...} span, [...] span that parses, in that order: the
\* object span's value when the object span and the array span both parse,
\* and the error value when none does.
C24_LayerOrder ==
    dfn = "generate_test_cases_for_batch" =>
        /\ DirectParse.ok =>
              dout = [layer |-> "direct", value |-> DirectParse.v]
        /\ (~DirectParse.ok /\ ObjectSpanParse.ok) =>
              dout = [layer |-> "object", value |-> ObjectSpanParse.v]
        /\ (~DirectParse.ok /\ ~ObjectSpanParse.ok /\ ArraySpanParse.ok) =>
              dout = [layer |-> "array",
                      value |-> Obj1("scenarios", ArraySpanParse.v)]
        /\ (~DirectParse.ok /\ ~ObjectSpanParse.ok /\ ~ArraySpanParse.ok) =>
              dout.layer = "error"

C24_Witness ==
    /\ dfn = "generate_test_cases_for_batch"
    /\ dpre = <<"w">>
    /\ ~DirectParse.ok /\ ObjectSpanParse.ok /\ ArraySpanParse.ok
    /\ dout = [layer |-> "object",
               value |-> Obj2("a", JArr(<<JNum(1)>>), "b", JNull)]

----------------------------------------------------------------------------
(* Claims about failed batches, under SpecBatch *)

\* the batch's completion call or its decoding failed
BatchFailed(r) ==
    \/ r = ProviderError
    \/ decode_api_batch(BatchReplies[r]).layer = "error"
    \/ NotAContainer(decode_api_batch(BatchReplies[r]).value)

\* the lists of the batches that did not fail, one after the other
RECURSIVE MergeSuccessful(_)
MergeSuccessful(answers) ==
    IF answers = <<>> THEN <<>>
    ELSE (IF BatchFailed(Head(answers)) THEN <<>>
          ELSE Extend(<<>>, BatchResultOf[Head(answers)]))
         \o MergeSuccessful(Tail(answers))

\* the entry is an error marker: {"error": ...}
ErrorMarker(x) == IsObj(x) /\ Has(x, "error")

\* C26: in batch expansion of more than 5 scenarios, a batch whose call or
\* decoding failed adds nothing to the merged list, which holds the
\* scenarios of the successful batches and no error marker.
C26_FailedBatchOmitted ==
    (bpc = "returned" /\ bn > 5) =>
        /\ Len(bret.v) = Len(MergeSuccessful(banswers))
        /\ \A k \in 1 .. Len(bret.v) : ~ErrorMarker(bret.v[k])

----------------------------------------------------------------------------
(* Claims about scenarios without test cases, under SpecValidate *)

\* an object with `title` whose `test_cases` is missing or is not a list
TitledWithoutCases(entry) ==
    /\ HasTitle(entry)
    /\ ~Has(entry, "test_cases") \/ ~IsArr(Get(entry, "test_cases"))

\* C27: validate keeps every scenario that is an object with `title` whose
\* `test_cases` is missing or is not a list, with `test_cases` = [] in the
\* output.
C27_KeptWithEmptyCases ==
    (vpass = 1 /\ Validated /\ IsArr(vin.v)) =>
        \A i \in 1 .. Len(vin.v.v) :
            TitledWithoutCases(vin.v.v[i]) =>
                \E k \in 1 .. Len(vout) :
                    /\ Get(vout[k], "title") = Get(vin.v.v[i], "title")
                    /\ IsArr(Get(vout[k], "test_cases"))
                    /\ Len(Get(vout[k], "test_cases").v) = 0

----------------------------------------------------------------------------
(* Claims about the walk of a Postman collection, under SpecRequest *)

RECURSIVE RequestsOfEveryFolder(_)
\* the requests of the items of a tree, an item before the items under
\* it, every item with `item` taken as a folder
RequestsOfEveryFolder(items) ==
    IF items = <<>> THEN <<>>
    ELSE LET item == Head(items)
         IN  (IF IsObj(item) /\ Has(item, "request")
              THEN <<Get(item, "request")>> ELSE <<>>)
             \o (IF IsObj(item) /\ Has(item, "item") /\ IsArr(Get(item, "item"))
                 THEN RequestsOfEveryFolder(Get(item, "item").v) ELSE <<>>)
             \o RequestsOfEveryFolder(Tail(items))

RECURSIVE RequestsOfLeaves(_)
\* the same, an item taken as a folder only if it has no `request`
RequestsOfLeaves(items) ==
    IF items = <<>> THEN <<>>
    ELSE LET item == Head(items)
         IN  (IF IsObj(item) /\ Has(item, "request")
              THEN <<Get(item, "request")>>
              ELSE IF IsObj(item) /\ Has(item, "item")
                      /\ IsArr(Get(item, "item"))
              THEN RequestsOfLeaves(Get(item, "item").v)
              ELSE <<>>)
             \o RequestsOfLeaves(Tail(items))

\* a Postman collection was parsed
PostmanParsed ==
    /\ rpc = "parsed"
    /\ document_type = "postman"
    /\ Has(rdoc.v, "item") /\ IsArr(Get(rdoc.v, "item"))

\* the endpoints are those of the requests, one each and in their order
EndpointsOf(requests) ==
    /\ Len(parsed_data) = Len(requests)
    /\ \A k \in 1 .. Len(requests) :
          LET method == GetOr(requests[k], "method", Text("GET"))
          IN  /\ parsed_data[k].method.t = method.t
              /\ method.t = "str" => parsed_data[k].method.v = method.v

====
